---- MODULE Spec2Model ----
(***************************************************************************)
(* Cascade-relay signaling server (src/unnamed/part_005, lines 315-541):   *)
(* the registry `clients`, BFS placement, close/reassignment, heartbeat    *)
(* sweep and rebalance, as a state machine with one action per handler.    *)
(***************************************************************************)
EXTENDS Integers, Sequences, FiniteSets, TLC

\* ---- bounds -------------------------------------------------------------
MaxClients == 4          \* connections ever accepted (ids are never reused)
MaxRegisters == 4        \* register frames processed in one run
MaxTicks == 1            \* clock advances of TickMs each
TickMs == 20000          \* how far one clock advance moves Date.now()
FillClients == 8         \* connections accepted in the capacity scenario
FillCloses == 1          \* closes in the capacity scenario
OrderClients == 5        \* connections accepted in the registration-order scenario
ClockClients == 3        \* connections accepted in the timed scenario
ClockSteps == 10         \* clock advances in the timed scenario
OverflowClients == 5     \* participants in the over-capacity registries
RelayClients == 3        \* connections accepted in the relay scenario
RelayRegisters == 5      \* register frames processed in the relay scenario
CrowdClients == 6        \* participants in the crowded-root registries
AdminClients == 3        \* connections accepted in the admin scenario
AdminRegisters == 4      \* register frames processed in the admin scenario
OnceClients == 5         \* connections accepted in the register-once scenario
SoleClients == 5         \* connections accepted in the sole-broadcaster scenario
VariantClients == 4      \* connections accepted by the server.js and part_006 variants

\* ---- program constants --------------------------------------------------
MAX_CHILDREN_PER_NODE == 2
ROOT_CHILD_LIMIT == 2
HEARTBEAT_TIMEOUT == 15000
HEARTBEAT_SWEEP_INTERVAL == 5000

NoId == 0                \* JavaScript null where an id is expected
Diverges == -1           \* the BFS loop of findParentNode never ends
NoRole == "null"         \* role: null (not registered) / role field absent

\* the role field of a register frame: the two roles of the protocol, or absent
RoleInputs == {"broadcaster", "listener", NoRole}

VARIABLES
    clients,   \* the Map id -> [ws, role, parentId, children, lastSeen]
    nextId,    \* next id crypto.randomUUID() hands out (fresh every time)
    now,       \* Date.now()
    sent,      \* frames written by safeSend during the last handler
    hung,      \* a handler entered a loop that never ends
    regs,      \* per id, the number of register frames it has sent so far
    order,     \* history kept by the scenarios that need one: the ids that have
               \* registered, in the order their register was processed
               \* (registration-order scenario); the ids that have registered
               \* as broadcaster (sole-broadcaster scenario)
    crashed    \* an exception escaped a handler: nothing catches it, the process ends

vars == <<clients, nextId, now, sent, hung, regs, order, crashed>>

\* ---- helpers ------------------------------------------------------------

\* Set.prototype.add on an insertion-ordered Set
SetAdd(s, x) == IF \E k \in 1 .. Len(s) : s[k] = x THEN s ELSE Append(s, x)

\* Set.prototype.delete
SetDelete(s, x) == SelectSeq(s, LAMBDA y : y # x)

\* Set.prototype.has
SetHas(s, x) == \E k \in 1 .. Len(s) : s[k] = x

RECURSIVE SortedSeq(_)
SortedSeq(S) ==
    IF S = {} THEN <<>>
    ELSE LET m == CHOOSE x \in S : \A y \in S : x <= y
         IN  <<m>> \o SortedSeq(S \ {m})

\* clients.entries(): keys in insertion order, which is the order of allocation
Entries(cl) == SortedSeq(DOMAIN cl)

Msg(to, type, ref) == [to |-> to, type |-> type, ref |-> ref]

\* A handler's working state: the registry, the frames written, divergence.
World(cl) == [cl |-> cl, out |-> <<>>, hung |-> FALSE]

safeSend(w, to, type, ref) ==
    IF to \in DOMAIN w.cl /\ w.cl[to].ws = "OPEN"
    THEN [w EXCEPT !.out = Append(@, Msg(to, type, ref))]
    ELSE w

\* Mutant of findRootBroadcaster: any registered role counts (c.role is truthy).
findRootAnyRole(cl) ==
    LET bs == {i \in DOMAIN cl : cl[i].role # NoRole}
    IN  IF bs = {} THEN NoId ELSE CHOOSE i \in bs : \A j \in bs : i <= j

findRootBroadcaster(cl) ==
    LET bs == {i \in DOMAIN cl : cl[i].role = "broadcaster"}
    IN  IF bs = {} THEN NoId ELSE CHOOSE i \in bs : \A j \in bs : i <= j

Limit(c) == IF c.role = "broadcaster" THEN ROOT_CHILD_LIMIT ELSE MAX_CHILDREN_PER_NODE

\* Mutant of BfsLoop: the children of a full node are not queued.
RECURSIVE BfsLoopNoDescent(_, _, _)
BfsLoopNoDescent(cl, q, exclude) ==
    IF q = <<>> THEN NoId
    ELSE LET id == Head(q)[1]
             rest == Tail(q)
         IN  IF id \in exclude THEN BfsLoopNoDescent(cl, rest, exclude)
             ELSE IF id \notin DOMAIN cl THEN BfsLoopNoDescent(cl, rest, exclude)
             ELSE IF Len(cl[id].children) < Limit(cl[id]) THEN id
             ELSE BfsLoopNoDescent(cl, rest, exclude)

\* Mutant of BfsLoop: the capacity test reads <= where the code reads <.
RECURSIVE BfsLoopOffByOne(_, _, _)
BfsLoopOffByOne(cl, q, exclude) ==
    IF q = <<>> THEN NoId
    ELSE LET id == Head(q)[1]
             d  == Head(q)[2]
             rest == Tail(q)
         IN  IF d > Cardinality(DOMAIN cl) THEN Diverges
             ELSE IF id \in exclude THEN BfsLoopOffByOne(cl, rest, exclude)
             ELSE IF id \notin DOMAIN cl THEN BfsLoopOffByOne(cl, rest, exclude)
             ELSE IF Len(cl[id].children) <= Limit(cl[id]) THEN id
             ELSE LET chs == SelectSeq(cl[id].children, LAMBDA ch : ch \notin exclude)
                  IN  BfsLoopOffByOne(cl, rest \o [k \in 1 .. Len(chs) |-> <<chs[k], d + 1>>],
                                      exclude)

\* Mutant of BfsLoop: q.pop() where the code reads q.shift() (depth first).
RECURSIVE BfsLoopAsStack(_, _, _)
BfsLoopAsStack(cl, q, exclude) ==
    IF q = <<>> THEN NoId
    ELSE LET id == q[Len(q)][1]
             d  == q[Len(q)][2]
             rest == SubSeq(q, 1, Len(q) - 1)
         IN  IF d > Cardinality(DOMAIN cl) THEN Diverges
             ELSE IF id \in exclude THEN BfsLoopAsStack(cl, rest, exclude)
             ELSE IF id \notin DOMAIN cl THEN BfsLoopAsStack(cl, rest, exclude)
             ELSE IF Len(cl[id].children) < Limit(cl[id]) THEN id
             ELSE LET chs == SelectSeq(cl[id].children, LAMBDA ch : ch \notin exclude)
                  IN  BfsLoopAsStack(cl, rest \o [k \in 1 .. Len(chs) |-> <<chs[k], d + 1>>],
                                     exclude)

\* The while loop of findParentNode. Queue entries are <<id, depth>>; the code
\* keeps no visited set, so on a cycle of full nodes the queue never empties:
\* an entry deeper than the number of clients proves that and yields Diverges.
RECURSIVE BfsLoop(_, _, _)
BfsLoop(cl, q, exclude) ==
    IF q = <<>> THEN NoId
    ELSE LET id == Head(q)[1]
             d  == Head(q)[2]
             rest == Tail(q)
         IN  IF d > Cardinality(DOMAIN cl) THEN Diverges
             ELSE IF id \in exclude THEN BfsLoop(cl, rest, exclude)
             ELSE IF id \notin DOMAIN cl THEN BfsLoop(cl, rest, exclude)
             ELSE IF Len(cl[id].children) < Limit(cl[id]) THEN id
             ELSE LET chs == SelectSeq(cl[id].children, LAMBDA ch : ch \notin exclude)
                  IN  BfsLoop(cl, rest \o [k \in 1 .. Len(chs) |-> <<chs[k], d + 1>>], exclude)

\* Mutant of findParentNode: only the root is examined, its subtree never.
findParentNodeRootOnly(cl, exclude) ==
    LET rootId == findRootBroadcaster(cl)
    IN  IF rootId = NoId \/ rootId \in exclude THEN NoId
        ELSE IF Len(cl[rootId].children) < Limit(cl[rootId]) THEN rootId
        ELSE NoId

findParentNode(cl, exclude) ==
    LET rootId == findRootBroadcaster(cl)
    IN  IF rootId = NoId THEN NoId ELSE BfsLoop(cl, <<<<rootId, 0>>>>, exclude)

\* Mutant of assignParentFor: the child is not added to the parent's children.
assignParentForUnlisted(w, childId) ==
    IF w.hung \/ childId \notin DOMAIN w.cl THEN w
    ELSE LET parentId == findParentNode(w.cl, {})
         IN  IF parentId = Diverges THEN [w EXCEPT !.hung = TRUE]
             ELSE IF parentId = NoId
             THEN safeSend([w EXCEPT !.cl[childId].parentId = NoId],
                           childId, "room-assigned", NoId)
             ELSE LET w1 == [w EXCEPT !.cl[childId].parentId = parentId]
                      w3 == safeSend(w1, childId, "room-assigned", parentId)
                  IN  safeSend(w3, parentId, "listener-joined", childId)

\* Mutant of assignParentFor: the parent is linked but never told.
assignParentForSilent(w, childId) ==
    IF w.hung \/ childId \notin DOMAIN w.cl THEN w
    ELSE LET parentId == findParentNode(w.cl, {})
         IN  IF parentId = Diverges THEN [w EXCEPT !.hung = TRUE]
             ELSE IF parentId = NoId
             THEN safeSend([w EXCEPT !.cl[childId].parentId = NoId],
                           childId, "room-assigned", NoId)
             ELSE LET w1 == [w EXCEPT !.cl[childId].parentId = parentId]
                      w2 == [w1 EXCEPT !.cl[parentId].children = SetAdd(@, childId)]
                  IN  safeSend(w2, childId, "room-assigned", parentId)

assignParentFor(w, childId) ==
    IF w.hung \/ childId \notin DOMAIN w.cl THEN w
    ELSE LET parentId == findParentNode(w.cl, {})
         IN  IF parentId = Diverges THEN [w EXCEPT !.hung = TRUE]
             ELSE IF parentId = NoId
             THEN safeSend([w EXCEPT !.cl[childId].parentId = NoId],
                           childId, "room-assigned", NoId)
             ELSE LET w1 == [w EXCEPT !.cl[childId].parentId = parentId]
                      w2 == [w1 EXCEPT !.cl[parentId].children = SetAdd(@, childId)]
                      w3 == safeSend(w2, childId, "room-assigned", parentId)
                  IN  safeSend(w3, parentId, "listener-joined", childId)

\* Mutant of PlaceOrphans: the loop stops after the first orphan it places.
RECURSIVE PlaceOrphansFirstOnly(_, _)
PlaceOrphansFirstOnly(w, ids) ==
    IF ids = <<>> \/ w.hung THEN w
    ELSE LET cid == Head(ids)
             c   == w.cl[cid]
         IN  IF c.role = "listener" /\ c.parentId = NoId
             THEN assignParentFor(w, cid)
             ELSE PlaceOrphansFirstOnly(w, Tail(ids))

\* for (const [cid, c] of clients.entries())
\*     if (c.role === "listener" && !c.parentId) assignParentFor(cid);
RECURSIVE PlaceOrphans(_, _)
PlaceOrphans(w, ids) ==
    IF ids = <<>> \/ w.hung THEN w
    ELSE LET cid == Head(ids)
             c   == w.cl[cid]
         IN  IF c.role = "listener" /\ c.parentId = NoId
             THEN PlaceOrphans(assignParentFor(w, cid), Tail(ids))
             ELSE PlaceOrphans(w, Tail(ids))

\* the "register" branch of ws.on("message")
RegisterStep(cl, id, role) ==
    LET r  == IF role = NoRole THEN "listener" ELSE role
        w0 == World([cl EXCEPT ![id].role = r])
    IN  IF r = "broadcaster"
        THEN PlaceOrphans(safeSend(w0, id, "registered-as-broadcaster", id), Entries(cl))
        ELSE assignParentFor(w0, id)

\* Mutant of ReassignChildren: a child for which no parent is found is not
\* told that it has lost its parent.
RECURSIVE ReassignChildrenQuietOrphan(_, _, _)
ReassignChildrenQuietOrphan(w, id, children) ==
    IF children = <<>> \/ w.hung THEN w
    ELSE LET ch == Head(children)
         IN  IF ch \notin DOMAIN w.cl THEN ReassignChildrenQuietOrphan(w, id, Tail(children))
             ELSE LET w1 == [w EXCEPT !.cl[ch].parentId = NoId]
                      newParent == findParentNode(w1.cl, {id, ch})
                      w2 == IF newParent = Diverges THEN [w1 EXCEPT !.hung = TRUE]
                            ELSE IF newParent # NoId
                            THEN LET a == [w1 EXCEPT !.cl[ch].parentId = newParent]
                                     b == [a EXCEPT !.cl[newParent].children = SetAdd(@, ch)]
                                     c == safeSend(b, newParent, "listener-joined", ch)
                                 IN  safeSend(c, ch, "reassigned", newParent)
                            ELSE w1
                  IN  ReassignChildrenQuietOrphan(w2, id, Tail(children))

\* Mutant of ReassignChildren: the search for a new parent excludes nothing.
RECURSIVE ReassignChildrenNoExclude(_, _, _)
ReassignChildrenNoExclude(w, id, children) ==
    IF children = <<>> \/ w.hung THEN w
    ELSE LET ch == Head(children)
         IN  IF ch \notin DOMAIN w.cl THEN ReassignChildrenNoExclude(w, id, Tail(children))
             ELSE LET w1 == [w EXCEPT !.cl[ch].parentId = NoId]
                      newParent == findParentNode(w1.cl, {})
                      w2 == IF newParent = Diverges THEN [w1 EXCEPT !.hung = TRUE]
                            ELSE IF newParent # NoId
                            THEN LET a == [w1 EXCEPT !.cl[ch].parentId = newParent]
                                     b == [a EXCEPT !.cl[newParent].children = SetAdd(@, ch)]
                                     c == safeSend(b, newParent, "listener-joined", ch)
                                 IN  safeSend(c, ch, "reassigned", newParent)
                            ELSE safeSend(w1, ch, "reassigned", NoId)
                  IN  ReassignChildrenNoExclude(w2, id, Tail(children))

\* the loop of ws.on("close") over the children of the closing node
RECURSIVE ReassignChildren(_, _, _)
ReassignChildren(w, id, children) ==
    IF children = <<>> \/ w.hung THEN w
    ELSE LET ch == Head(children)
         IN  IF ch \notin DOMAIN w.cl THEN ReassignChildren(w, id, Tail(children))
             ELSE LET w1 == [w EXCEPT !.cl[ch].parentId = NoId]
                      newParent == findParentNode(w1.cl, {id, ch})
                      w2 == IF newParent = Diverges THEN [w1 EXCEPT !.hung = TRUE]
                            ELSE IF newParent # NoId
                            THEN LET a == [w1 EXCEPT !.cl[ch].parentId = newParent]
                                     b == [a EXCEPT !.cl[newParent].children = SetAdd(@, ch)]
                                     c == safeSend(b, newParent, "listener-joined", ch)
                                 IN  safeSend(c, ch, "reassigned", newParent)
                            ELSE safeSend(w1, ch, "reassigned", NoId)
                  IN  ReassignChildren(w2, id, Tail(children))

\* Mutant of CloseStep: the children are re-placed first and the closing node
\* is taken out of its parent's children afterwards.
CloseStepReassignsFirst(cl, id) ==
    LET c  == cl[id]
        w0 == World([cl EXCEPT ![id].ws = "CLOSED"])
        w1 == ReassignChildren(w0, id, w0.cl[id].children)
        w2 == IF c.parentId # NoId /\ c.parentId \in DOMAIN cl
              THEN safeSend([w1 EXCEPT !.cl[c.parentId].children = SetDelete(@, id)],
                            c.parentId, "child-left", id)
              ELSE w1
    IN  IF w2.hung THEN w2
        ELSE [w2 EXCEPT !.cl = [i \in DOMAIN w2.cl \ {id} |-> w2.cl[i]]]

\* Mutant of CloseStep: the children are detached and told so, and no new
\* parent is searched for them.
CloseStepNoSearch(cl, id) ==
    LET c  == cl[id]
        w0 == World([cl EXCEPT ![id].ws = "CLOSED"])
        w1 == IF c.parentId # NoId /\ c.parentId \in DOMAIN cl
              THEN safeSend([w0 EXCEPT !.cl[c.parentId].children = SetDelete(@, id)],
                            c.parentId, "child-left", id)
              ELSE w0
        kids == {w1.cl[id].children[k] : k \in 1 .. Len(w1.cl[id].children)} \cap DOMAIN cl
        cl2  == [i \in DOMAIN cl \ {id} |->
                   IF i \in kids THEN [w1.cl[i] EXCEPT !.parentId = NoId] ELSE w1.cl[i]]
    IN  [w1 EXCEPT !.cl = cl2]

\* ws.on("close"): the event is emitted once the socket's readyState is CLOSED,
\* so a frame the handler addresses to the closing participant is not written
CloseStep(cl, id) ==
    LET c  == cl[id]
        w0 == World([cl EXCEPT ![id].ws = "CLOSED"])
        w1 == IF c.parentId # NoId /\ c.parentId \in DOMAIN cl
              THEN safeSend([w0 EXCEPT !.cl[c.parentId].children = SetDelete(@, id)],
                            c.parentId, "child-left", id)
              ELSE w0
        w2 == ReassignChildren(w1, id, w1.cl[id].children)
    IN  IF w2.hung THEN w2
        ELSE [w2 EXCEPT !.cl = [i \in DOMAIN w2.cl \ {id} |-> w2.cl[i]]]

\* Mutant of heartbeatSweep: a participant is terminated as soon as its
\* silence reaches the timeout (>= for >).
heartbeatSweepAtTimeout(cl, t) ==
    [i \in DOMAIN cl |->
        LET seen == IF cl[i].lastSeen = 0 THEN t ELSE cl[i].lastSeen
            c    == [cl[i] EXCEPT !.lastSeen = seen]
        IN  IF t - seen >= HEARTBEAT_TIMEOUT THEN [c EXCEPT !.ws = "CLOSING"] ELSE c]

\* Mutant of heartbeatSweep: a timed-out participant is dropped from the Map
\* on the spot.
heartbeatSweepDeletes(cl, t) ==
    LET keep == {i \in DOMAIN cl : ~(t - cl[i].lastSeen > HEARTBEAT_TIMEOUT)}
    IN  [i \in keep |-> cl[i]]

\* Mutant of heartbeatSweep: the operands of the subtraction are swapped.
heartbeatSweepSwapped(cl, t) ==
    [i \in DOMAIN cl |->
        LET seen == IF cl[i].lastSeen = 0 THEN t ELSE cl[i].lastSeen
            c    == [cl[i] EXCEPT !.lastSeen = seen]
        IN  IF seen - t > HEARTBEAT_TIMEOUT THEN [c EXCEPT !.ws = "CLOSING"] ELSE c]

\* heartbeatSweep: terminate() leaves the entry in the Map with a closing socket
heartbeatSweep(cl, t) ==
    [i \in DOMAIN cl |->
        LET seen == IF cl[i].lastSeen = 0 THEN t ELSE cl[i].lastSeen
            c    == [cl[i] EXCEPT !.lastSeen = seen]
        IN  IF t - seen > HEARTBEAT_TIMEOUT THEN [c EXCEPT !.ws = "CLOSING"] ELSE c]

\* Mutant of SortByLoad: the comparator is turned round (b.load - a.load).
RECURSIVE SortByLoadDescending(_)
SortByLoadDescending(cand) ==
    IF cand = <<>> THEN <<>>
    ELSE LET rest == SortByLoadDescending(SubSeq(cand, 1, Len(cand) - 1))
             x    == cand[Len(cand)]
             ge   == SelectSeq(rest, LAMBDA y : y.load >= x.load)
             lt   == SelectSeq(rest, LAMBDA y : y.load < x.load)
         IN  ge \o <<x>> \o lt

\* cand.sort((a, b) => a.load - b.load): Array.prototype.sort is stable
RECURSIVE SortByLoad(_)
SortByLoad(cand) ==
    IF cand = <<>> THEN <<>>
    ELSE LET rest == SortByLoad(SubSeq(cand, 1, Len(cand) - 1))
             x    == cand[Len(cand)]
             le   == SelectSeq(rest, LAMBDA y : y.load <= x.load)
             gt   == SelectSeq(rest, LAMBDA y : y.load > x.load)
         IN  le \o <<x>> \o gt

\* the candidate list rebalance builds before it moves anything
Candidates(cl) ==
    LET ids == SelectSeq(Entries(cl), LAMBDA i : cl[i].role # NoRole)
    IN  SortByLoad([k \in 1 .. Len(ids) |->
            [id |-> ids[k], load |-> Len(cl[ids[k]].children), limit |-> Limit(cl[ids[k]])]])

\* cand.find(x => x.id !== id && x.load < x.limit), as an index (0: none)
FindDest(cand, id) ==
    LET ok == {k \in 1 .. Len(cand) : cand[k].id # id /\ cand[k].load < cand[k].limit}
    IN  IF ok = {} THEN 0 ELSE CHOOSE k \in ok : \A j \in ok : k <= j

\* Mutant of MoveOverflow: the cached load of the destination is not advanced.
RECURSIVE MoveOverflowNoCount(_, _, _)
MoveOverflowNoCount(st, id, overflow) ==
    IF overflow = <<>> THEN st
    ELSE LET childId == Head(overflow)
             k == FindDest(st.cand, id)
         IN  IF k = 0 THEN st
             ELSE LET dest == st.cand[k].id
                      w1 == [st.w EXCEPT !.cl[id].children = SetDelete(@, childId)]
                  IN  IF childId \notin DOMAIN w1.cl
                      THEN MoveOverflowNoCount([st EXCEPT !.w = w1], id, Tail(overflow))
                      ELSE LET w2 == [w1 EXCEPT !.cl[childId].parentId = dest]
                               w3 == [w2 EXCEPT !.cl[dest].children = SetAdd(@, childId)]
                               w4 == safeSend(w3, dest, "listener-joined", childId)
                               w5 == safeSend(w4, childId, "reassigned", dest)
                           IN  MoveOverflowNoCount([w |-> w5, cand |-> st.cand],
                                                   id, Tail(overflow))

\* for (const childId of overflow) { ... } for the over-capacity node id
RECURSIVE MoveOverflow(_, _, _)
MoveOverflow(st, id, overflow) ==
    IF overflow = <<>> THEN st
    ELSE LET childId == Head(overflow)
             k == FindDest(st.cand, id)
         IN  IF k = 0 THEN st
             ELSE LET dest == st.cand[k].id
                      w1 == [st.w EXCEPT !.cl[id].children = SetDelete(@, childId)]
                  IN  IF childId \notin DOMAIN w1.cl
                      THEN MoveOverflow([st EXCEPT !.w = w1], id, Tail(overflow))
                      ELSE LET w2 == [w1 EXCEPT !.cl[childId].parentId = dest]
                               w3 == [w2 EXCEPT !.cl[dest].children = SetAdd(@, childId)]
                               w4 == safeSend(w3, dest, "listener-joined", childId)
                               w5 == safeSend(w4, childId, "reassigned", dest)
                           IN  MoveOverflow([w |-> w5,
                                             cand |-> [st.cand EXCEPT ![k].load = @ + 1]],
                                            id, Tail(overflow))

\* Mutant of RebalanceLoop: a node that is exactly full counts as over
\* capacity (< for <=, slice(limit - 1)).
RECURSIVE RebalanceLoopEager(_, _)
RebalanceLoopEager(st, ids) ==
    IF ids = <<>> THEN st
    ELSE LET id == Head(ids)
             c  == st.w.cl[id]
             limit == Limit(c)
         IN  IF Len(c.children) < limit THEN RebalanceLoopEager(st, Tail(ids))
             ELSE RebalanceLoopEager(
                      MoveOverflow(st, id, SubSeq(c.children, limit, Len(c.children))),
                      Tail(ids))

\* for (const [id, c] of clients.entries()) { ... } of rebalance
RECURSIVE RebalanceLoop(_, _)
RebalanceLoop(st, ids) ==
    IF ids = <<>> THEN st
    ELSE LET id == Head(ids)
             c  == st.w.cl[id]
             limit == Limit(c)
         IN  IF Len(c.children) <= limit THEN RebalanceLoop(st, Tail(ids))
             ELSE RebalanceLoop(
                      MoveOverflow(st, id, SubSeq(c.children, limit + 1, Len(c.children))),
                      Tail(ids))

rebalance(cl) == RebalanceLoop([w |-> World(cl), cand |-> Candidates(cl)], Entries(cl)).w

\* ---- the state machine --------------------------------------------------

Init ==
    /\ clients = <<>>
    /\ nextId = 1
    /\ now = 1
    /\ sent = <<>>
    /\ hung = FALSE
    /\ regs = <<>>
    /\ order = <<>>
    /\ crashed = FALSE

\* wss.on("connection")
Connect ==
    /\ ~hung
    /\ clients' = [i \in DOMAIN clients \cup {nextId} |->
                     IF i = nextId
                     THEN [ws |-> "OPEN", role |-> NoRole, parentId |-> NoId,
                           children |-> <<>>, lastSeen |-> now]
                     ELSE clients[i]]
    /\ nextId' = nextId + 1
    /\ regs' = [i \in DOMAIN regs \cup {nextId} |-> IF i = nextId THEN 0 ELSE regs[i]]
    /\ sent' = <<>>
    /\ UNCHANGED <<now, hung>>

RECURSIVE SumRegs(_)
SumRegs(S) == IF S = {} THEN 0
              ELSE LET i == CHOOSE x \in S : TRUE IN regs[i] + SumRegs(S \ {i})
TotalRegs == SumRegs(DOMAIN regs)

Commit(w) ==
    /\ clients' = w.cl
    /\ sent' = w.out
    /\ hung' = w.hung

Register(id, role) ==
    /\ ~hung
    /\ id \in DOMAIN clients
    /\ clients[id].ws = "OPEN"
    /\ Commit(RegisterStep(clients, id, role))
    /\ regs' = [regs EXCEPT ![id] = @ + 1]
    /\ UNCHANGED <<nextId, now>>

Close(id) ==
    /\ ~hung
    /\ id \in DOMAIN clients
    /\ Commit(CloseStep(clients, id))
    /\ UNCHANGED <<nextId, now, regs>>

\* Mutant of Heartbeat: the entry is set up anew, as on connection.
HeartbeatResets(id) ==
    /\ ~hung
    /\ id \in DOMAIN clients
    /\ clients[id].ws = "OPEN"
    /\ clients' = [clients EXCEPT ![id] = [ws |-> "OPEN", role |-> NoRole, parentId |-> NoId,
                                          children |-> <<>>, lastSeen |-> now]]
    /\ sent' = <<>>
    /\ UNCHANGED <<nextId, now, hung, regs>>

\* the "heartbeat" branch of ws.on("message")
Heartbeat(id) ==
    /\ ~hung
    /\ id \in DOMAIN clients
    /\ clients[id].ws = "OPEN"
    /\ clients' = [clients EXCEPT ![id].lastSeen = now]
    /\ sent' = <<>>
    /\ UNCHANGED <<nextId, now, hung, regs>>

\* setInterval(heartbeatSweep, 5000)
Sweep ==
    /\ ~hung
    /\ clients' = heartbeatSweep(clients, now)
    /\ sent' = <<>>
    /\ UNCHANGED <<nextId, now, hung, regs>>

\* setInterval(rebalance, REBALANCE_INTERVAL)
Rebalance ==
    /\ ~hung
    /\ Commit(rebalance(clients))
    /\ UNCHANGED <<nextId, now, regs>>

\* the clock moves on between two handlers
Tick ==
    /\ ~hung
    /\ now < MaxTicks * TickMs
    /\ now' = now + TickMs
    /\ UNCHANGED <<clients, nextId, sent, hung, regs>>

Next ==
    \/ nextId <= MaxClients /\ Connect /\ UNCHANGED <<order, crashed>>
    \/ \E id \in DOMAIN clients, role \in RoleInputs :
          TotalRegs < MaxRegisters /\ Register(id, role) /\ UNCHANGED <<order, crashed>>
    \/ \E id \in DOMAIN clients : Heartbeat(id) /\ UNCHANGED <<order, crashed>>
    \/ \E id \in DOMAIN clients : Close(id) /\ UNCHANGED <<order, crashed>>
    \/ Sweep /\ UNCHANGED <<order, crashed>>
    \/ Rebalance /\ UNCHANGED <<order, crashed>>
    \/ Tick /\ UNCHANGED <<order, crashed>>

Spec == Init /\ [][Next]_vars

\* ---- the capacity scenario: one broadcaster, every participant registers
\* once, listeners in the order they connected, at most FillCloses closes ----

Departed == (1 .. nextId - 1) \ DOMAIN clients

FillRegister(id) ==
    /\ regs[id] = 0
    /\ \A j \in DOMAIN clients : (1 < j /\ j < id) => regs[j] > 0
    /\ Register(id, IF id = 1 THEN "broadcaster" ELSE "listener")

NextFill ==
    \/ nextId <= FillClients /\ Connect /\ UNCHANGED <<order, crashed>>
    \/ \E id \in DOMAIN clients : FillRegister(id) /\ UNCHANGED <<order, crashed>>
    \/ \E id \in DOMAIN clients :
          Cardinality(Departed) < FillCloses /\ Close(id) /\ UNCHANGED <<order, crashed>>

SpecFill == Init /\ [][NextFill]_vars

\* ---- the registration-order scenario: every participant registers once, in
\* any order, listeners first and one broadcaster after them or among them ----

OrderRegister(id, role) ==
    /\ regs[id] = 0
    /\ role = "broadcaster" => \A i \in DOMAIN clients : clients[i].role # "broadcaster"
    /\ Register(id, role)
    /\ order' = Append(order, id)
    /\ UNCHANGED crashed

NextOrder ==
    \/ nextId <= OrderClients /\ Connect /\ UNCHANGED <<order, crashed>>
    \/ \E id \in DOMAIN clients, role \in {"broadcaster", "listener"} :
          OrderRegister(id, role)

SpecOrder == Init /\ [][NextOrder]_vars

\* ---- the timed scenario: the clock advances in steps of ClockStepMs and the
\* callback of setInterval(heartbeatSweep, 5000) runs when it is due, that is
\* every HEARTBEAT_SWEEP_INTERVAL ms after the start of the server (now = 1);
\* participants register once, send heartbeats when they like, and a close
\* event is the one that follows terminate() ----

\* the clock is read twice per sweep interval
ClockStepMs == HEARTBEAT_SWEEP_INTERVAL \div 2

SweepDue(t) == (t - 1) % HEARTBEAT_SWEEP_INTERVAL = 0

ClockTick ==
    /\ ~hung
    /\ now < 1 + ClockSteps * ClockStepMs
    /\ now' = now + ClockStepMs
    /\ IF SweepDue(now')
       THEN clients' = heartbeatSweep(clients, now') /\ sent' = <<>>
       ELSE UNCHANGED <<clients, sent>>
    /\ UNCHANGED <<nextId, hung, regs>>

TimeoutClose(id) ==
    /\ clients[id].ws = "CLOSING"
    /\ Close(id)

NextClock ==
    \/ nextId <= ClockClients /\ Connect /\ UNCHANGED <<order, crashed>>
    \/ \E id \in DOMAIN clients : FillRegister(id) /\ UNCHANGED <<order, crashed>>
    \/ \E id \in DOMAIN clients : Heartbeat(id) /\ UNCHANGED <<order, crashed>>
    \/ \E id \in DOMAIN clients : TimeoutClose(id) /\ UNCHANGED <<order, crashed>>
    \/ ClockTick /\ UNCHANGED <<order, crashed>>

SpecClock == Init /\ [][NextClock]_vars

\* ---- the relay scenario: the branches of ws.on("message") other than
\* heartbeat and register, on the registries built by connect, one register
\* per participant (the first as broadcaster), further register{listener}
\* frames and the heartbeat sweep ----

RelayTypes == {"offer", "answer", "candidate"}
NoType == "undefined"
Payloads == {"p"}

\* the text of an inbound frame, by what JSON.parse makes of it: "invalid"
\* (parse throws), "null", "scalar" (a number, string, boolean or array: every
\* destructured field is undefined) or "object" with the fields read
InFrame(json, type, target, from, payload) ==
    [json |-> json, type |-> type, target |-> target, from |-> from, payload |-> payload]

InFrames ==
    {InFrame(j, NoType, NoId, NoId, "p") : j \in {"invalid", "null", "scalar"}}
    \cup {InFrame("object", t, g, f, p) :
             t \in RelayTypes, g \in 0 .. RelayClients + 1, f \in {NoId, 1}, p \in Payloads}
    \cup {InFrame("object", t, NoId, NoId, p) :
             t \in {"cmd", "metadata", "room-message", "ping", NoType}, p \in Payloads}

\* a frame the relay branches write: ref is the from field (NoId: none)
RelayMsg(to, type, from, payload) ==
    [to |-> to, type |-> type, ref |-> from, payload |-> payload]

\* Mutant of safeSendFrame: the readyState of the recipient is not looked at.
safeSendFrameAlways(w, m) ==
    IF m.to \in DOMAIN w.cl
    THEN [w EXCEPT !.out = Append(@, m)]
    ELSE w

safeSendFrame(w, m) ==
    IF m.to \in DOMAIN w.cl /\ w.cl[m.to].ws = "OPEN"
    THEN [w EXCEPT !.out = Append(@, m)]
    ELSE w

\* for (...) safeSend(c.ws, frame) over a list of ids; an id not in the Map
\* is passed over
RECURSIVE SendEach(_, _, _, _, _)
SendEach(w, ids, type, from, payload) ==
    IF ids = <<>> THEN w
    ELSE SendEach(safeSendFrame(w, RelayMsg(Head(ids), type, from, payload)),
                  Tail(ids), type, from, payload)

\* Mutant of MessageStep: the from field of the inbound frame is forwarded.
MessageStepKeepsFrom(cl, id, f) ==
    LET w    == World(cl)
        type == IF f.json = "object" THEN f.type ELSE NoType
    IN  IF f.json = "invalid" THEN [w |-> w, thrown |-> FALSE]
        ELSE IF f.json = "null" THEN [w |-> w, thrown |-> TRUE]
        ELSE IF type \in RelayTypes /\ f.target # NoId
        THEN [w |-> safeSendFrame(w, RelayMsg(f.target, type,
                                              IF f.from # NoId THEN f.from ELSE id,
                                              f.payload)),
              thrown |-> FALSE]
        ELSE IF type = "cmd" /\ cl[id].role = "broadcaster"
        THEN [w |-> SendEach(w, Entries(cl), "cmd", NoId, f.payload), thrown |-> FALSE]
        ELSE IF type = "metadata" /\ cl[id].role = "broadcaster"
        THEN [w |-> SendEach(w, Entries(cl), "metadata", NoId, f.payload), thrown |-> FALSE]
        ELSE IF type = "room-message"
        THEN [w |-> SendEach(w, cl[id].children, "room-message", id, f.payload),
              thrown |-> FALSE]
        ELSE [w |-> w, thrown |-> FALSE]

\* ws.on("message") for a frame that is neither heartbeat nor register:
\* JSON.parse in try/catch, then the destructuring of msg, which throws a
\* TypeError when msg is null, then the branches in the order of the code
MessageStep(cl, id, f) ==
    LET w    == World(cl)
        type == IF f.json = "object" THEN f.type ELSE NoType
    IN  IF f.json = "invalid" THEN [w |-> w, thrown |-> FALSE]
        ELSE IF f.json = "null" THEN [w |-> w, thrown |-> TRUE]
        ELSE IF type \in RelayTypes /\ f.target # NoId
        THEN [w |-> safeSendFrame(w, RelayMsg(f.target, type, id, f.payload)),
              thrown |-> FALSE]
        ELSE IF type = "cmd" /\ cl[id].role = "broadcaster"
        THEN [w |-> SendEach(w, Entries(cl), "cmd", NoId, f.payload), thrown |-> FALSE]
        ELSE IF type = "metadata" /\ cl[id].role = "broadcaster"
        THEN [w |-> SendEach(w, Entries(cl), "metadata", NoId, f.payload), thrown |-> FALSE]
        ELSE IF type = "room-message"
        THEN [w |-> SendEach(w, cl[id].children, "room-message", id, f.payload),
              thrown |-> FALSE]
        ELSE [w |-> w, thrown |-> FALSE]

Message(id, f) ==
    /\ ~hung /\ ~crashed
    /\ id \in DOMAIN clients
    /\ clients[id].ws = "OPEN"
    /\ Commit(MessageStep(clients, id, f).w)
    /\ crashed' = MessageStep(clients, id, f).thrown
    /\ UNCHANGED <<nextId, now, regs, order>>

RegisterAgain(id) ==
    /\ regs[id] >= 1
    /\ TotalRegs < RelayRegisters
    /\ Register(id, "listener")

NextRelay ==
    \/ ~crashed /\ nextId <= RelayClients /\ Connect /\ UNCHANGED <<order, crashed>>
    \/ \E id \in DOMAIN clients :
          ~crashed /\ TotalRegs < RelayRegisters /\ FillRegister(id)
          /\ UNCHANGED <<order, crashed>>
    \/ \E id \in DOMAIN clients :
          ~crashed /\ RegisterAgain(id) /\ UNCHANGED <<order, crashed>>
    \/ \E id \in DOMAIN clients : ~crashed /\ Heartbeat(id) /\ UNCHANGED <<order, crashed>>
    \/ ~crashed /\ Sweep /\ UNCHANGED <<order, crashed>>
    \/ ~crashed /\ Tick /\ UNCHANGED <<order, crashed>>
    \/ \E id \in DOMAIN clients, f \in InFrames : Message(id, f)

SpecRelay == Init /\ [][NextRelay]_vars

\* ---- rebalance as a function of the registry: no handler ever leaves a node
\* over capacity (C4), so the over-capacity registries that rebalance is
\* written for are drawn as inputs: broadcaster b with the one child l1, l1
\* with three children, every link bidirectional, any transport open or
\* terminated, any further participant connected and not registered ----

OverflowIds == 1 .. OverflowClients

OverflowRegistry(b, l1, kids, closing) ==
    [i \in OverflowIds |->
        [ws       |-> IF i \in closing THEN "CLOSING" ELSE "OPEN",
         role     |-> IF i = b THEN "broadcaster"
                      ELSE IF i = l1 \/ \E k \in 1 .. 3 : kids[k] = i THEN "listener"
                      ELSE NoRole,
         parentId |-> IF i = l1 THEN b
                      ELSE IF \E k \in 1 .. 3 : kids[k] = i THEN l1
                      ELSE NoId,
         children |-> IF i = b THEN <<l1>> ELSE IF i = l1 THEN kids ELSE <<>>,
         lastSeen |-> 1]]

InitOverflow ==
    /\ \E b \in OverflowIds, l1 \in OverflowIds, closing \in SUBSET OverflowIds :
          \E kids \in [1 .. 3 -> OverflowIds \ {b, l1}] :
              /\ b # l1
              /\ kids[1] # kids[2] /\ kids[1] # kids[3] /\ kids[2] # kids[3]
              /\ clients = OverflowRegistry(b, l1, kids, closing)
    /\ nextId = OverflowClients + 1
    /\ now = 1
    /\ sent = <<>>
    /\ hung = FALSE
    /\ regs = [i \in OverflowIds |-> IF clients[i].role = NoRole THEN 0 ELSE 1]
    /\ order = <<>>
    /\ crashed = FALSE

NextOverflow == Rebalance /\ UNCHANGED <<order, crashed>>

SpecOverflow == InitOverflow /\ [][NextOverflow]_vars

\* ---- rebalance with several overflow children and with destinations that
\* are full: broadcaster 1 with three or more children, each a listener that
\* is either a leaf or already holds MAX_CHILDREN_PER_NODE ids of departed
\* participants (the entries a close leaves behind, see C15) ----

CrowdIds == 1 .. CrowdClients

CrowdKids ==
    UNION {{q \in [1 .. n -> CrowdIds \ {1}] :
                \A i \in 1 .. n, j \in 1 .. n : i # j => q[i] # q[j]}
           : n \in 3 .. CrowdClients - 1}

CrowdRegistry(kids, full) ==
    [i \in CrowdIds |->
        LET kid == \E k \in 1 .. Len(kids) : kids[k] = i
        IN  [ws       |-> "OPEN",
             role     |-> IF i = 1 THEN "broadcaster" ELSE IF kid THEN "listener" ELSE NoRole,
             parentId |-> IF kid THEN 1 ELSE NoId,
             children |-> IF i = 1 THEN kids
                          ELSE IF i \in full THEN <<i + CrowdClients, i + 2 * CrowdClients>>
                          ELSE <<>>,
             lastSeen |-> 1]]

InitCrowd ==
    /\ \E kids \in CrowdKids :
          \E full \in SUBSET {kids[k] : k \in 1 .. Len(kids)} :
              clients = CrowdRegistry(kids, full)
    /\ nextId = 3 * CrowdClients + 1
    /\ now = 1
    /\ sent = <<>>
    /\ hung = FALSE
    /\ regs = [i \in CrowdIds |-> IF clients[i].role = NoRole THEN 0 ELSE 1]
    /\ order = <<>>
    /\ crashed = FALSE

NextCrowd == Rebalance /\ UNCHANGED <<order, crashed>>

SpecCrowd == InitCrowd /\ [][NextCrowd]_vars

\* ---- the admin endpoint: the body of the HTTP response is recorded in `sent`
\* as the one output of the step, addressed to no participant ----

AdminEntry(cl, id) ==
    [id |-> id, role |-> cl[id].role, parentId |-> cl[id].parentId,
     children |-> cl[id].children, lastSeen |-> cl[id].lastSeen]

\* Mutant of adminRooms: participants that have not registered are left out.
adminRoomsRegisteredOnly(cl) ==
    LET ids == SelectSeq(Entries(cl), LAMBDA i : cl[i].role # NoRole)
    IN  [k \in 1 .. Len(ids) |-> AdminEntry(cl, ids[k])]

\* app.get("/admin/rooms"): one synchronous pass over clients.entries()
adminRooms(cl) ==
    LET ids == Entries(cl)
    IN  [k \in 1 .. Len(ids) |-> AdminEntry(cl, ids[k])]

AdminRooms ==
    /\ ~hung
    /\ sent' = <<Msg(NoId, "admin-rooms", adminRooms(clients))>>
    /\ UNCHANGED <<clients, nextId, now, hung, regs>>

NextAdmin ==
    \/ nextId <= AdminClients /\ Connect /\ UNCHANGED <<order, crashed>>
    \/ \E id \in DOMAIN clients, r \in RoleInputs :
          TotalRegs < AdminRegisters /\ Register(id, r) /\ UNCHANGED <<order, crashed>>
    \/ \E id \in DOMAIN clients : Close(id) /\ UNCHANGED <<order, crashed>>
    \/ Rebalance /\ UNCHANGED <<order, crashed>>
    \/ AdminRooms /\ UNCHANGED <<order, crashed>>

SpecAdmin == Init /\ [][NextAdmin]_vars

\* ---- the register-once scenario: every participant sends at most one
\* register frame, with any role; connects, closes, sweeps, clock advances
\* and rebalance ticks interleave freely ----

RegisterOnce(id, r) ==
    /\ regs[id] = 0
    /\ Register(id, r)

NextOnce ==
    \/ nextId <= OnceClients /\ Connect /\ UNCHANGED <<order, crashed>>
    \/ \E id \in DOMAIN clients, r \in RoleInputs :
          RegisterOnce(id, r) /\ UNCHANGED <<order, crashed>>
    \/ \E id \in DOMAIN clients : Close(id) /\ UNCHANGED <<order, crashed>>
    \/ Sweep /\ UNCHANGED <<order, crashed>>
    \/ Rebalance /\ UNCHANGED <<order, crashed>>
    \/ Tick /\ UNCHANGED <<order, crashed>>

SpecOnce == Init /\ [][NextOnce]_vars

\* ---- the sole-broadcaster scenario: every participant registers at most
\* once and at most one of them, whichever, ever registers as broadcaster ----

SoleRegister(id, r) ==
    /\ regs[id] = 0
    /\ r = "broadcaster" => order = <<>>
    /\ Register(id, r)
    /\ order' = IF r = "broadcaster" THEN Append(order, id) ELSE order
    /\ UNCHANGED crashed

NextSole ==
    \/ nextId <= SoleClients /\ Connect /\ UNCHANGED <<order, crashed>>
    \/ \E id \in DOMAIN clients, r \in RoleInputs : SoleRegister(id, r)
    \/ \E id \in DOMAIN clients : Close(id) /\ UNCHANGED <<order, crashed>>
    \/ Sweep /\ UNCHANGED <<order, crashed>>
    \/ Rebalance /\ UNCHANGED <<order, crashed>>
    \/ Tick /\ UNCHANGED <<order, crashed>>

SpecSole == Init /\ [][NextSole]_vars

\* ---- the server.js variant: the breadth-first search takes no exclusion set.
\* The backupParent field is written and never read, and is left out. ----

\* the while loop of bfsFindParent; queue entries are <<id, depth>> and an
\* entry deeper than the number of clients shows that the queue never empties
RECURSIVE bfsFindParentLoop(_, _)
bfsFindParentLoop(cl, q) ==
    IF q = <<>> THEN NoId
    ELSE LET id == Head(q)[1]
             d  == Head(q)[2]
             rest == Tail(q)
         IN  IF d > Cardinality(DOMAIN cl) THEN Diverges
             ELSE IF id \notin DOMAIN cl THEN bfsFindParentLoop(cl, rest)
             ELSE IF Len(cl[id].children) < Limit(cl[id]) THEN id
             ELSE bfsFindParentLoop(cl,
                      rest \o [k \in 1 .. Len(cl[id].children) |-> <<cl[id].children[k], d + 1>>])

bfsFindParent(cl) ==
    LET rootId == findRootBroadcaster(cl)
    IN  IF rootId = NoId THEN NoId ELSE bfsFindParentLoop(cl, <<<<rootId, 0>>>>)

reassignChild(w, childId) ==
    IF w.hung \/ childId \notin DOMAIN w.cl THEN w
    ELSE LET newParent == bfsFindParent(w.cl)
             w1 == [w EXCEPT !.cl[childId].parentId = NoId]
         IN  IF newParent = Diverges THEN [w EXCEPT !.hung = TRUE]
             ELSE IF newParent = NoId THEN safeSend(w1, childId, "reassigned", NoId)
             ELSE LET a == [w1 EXCEPT !.cl[childId].parentId = newParent]
                      b == [a EXCEPT !.cl[newParent].children = SetAdd(@, childId)]
                      c == safeSend(b, newParent, "listener-joined", childId)
                  IN  safeSend(c, childId, "reassigned", newParent)

\* the loop of the broadcaster branch over clients.entries()
RECURSIVE ReassignRootless(_, _)
ReassignRootless(w, ids) ==
    IF ids = <<>> \/ w.hung THEN w
    ELSE LET cid == Head(ids)
             c   == w.cl[cid]
         IN  IF c.role = "listener" /\ c.parentId = NoId
             THEN ReassignRootless(reassignChild(w, cid), Tail(ids))
             ELSE ReassignRootless(w, Tail(ids))

\* the "register" branch of ws.on("message") in server.js
ServerRegisterStep(cl, id, r0) ==
    LET r  == IF r0 = NoRole THEN "listener" ELSE r0
        w0 == World([cl EXCEPT ![id].role = r])
    IN  IF r = "broadcaster"
        THEN ReassignRootless(safeSend(w0, id, "registered-as-broadcaster", id), Entries(cl))
        ELSE LET parentId == bfsFindParent(w0.cl)
             IN  IF parentId = Diverges THEN [w0 EXCEPT !.hung = TRUE]
                 ELSE IF parentId = NoId
                 THEN safeSend([w0 EXCEPT !.cl[id].parentId = NoId], id, "room-assigned", NoId)
                 ELSE LET a == [w0 EXCEPT !.cl[id].parentId = parentId]
                          b == [a EXCEPT !.cl[parentId].children = SetAdd(@, id)]
                          c == safeSend(b, id, "room-assigned", parentId)
                      IN  safeSend(c, parentId, "listener-joined", id)

\* the loop of ws.on("close") in server.js over Array.from(c.children)
RECURSIVE ServerReassignChildren(_, _)
ServerReassignChildren(w, children) ==
    IF children = <<>> \/ w.hung THEN w
    ELSE LET ch == Head(children)
         IN  IF ch \notin DOMAIN w.cl THEN ServerReassignChildren(w, Tail(children))
             ELSE LET w1 == [w EXCEPT !.cl[ch].parentId = NoId]
                      newParent == bfsFindParent(w1.cl)
                      w2 == IF newParent = Diverges THEN [w1 EXCEPT !.hung = TRUE]
                            ELSE IF newParent # NoId
                            THEN LET a == [w1 EXCEPT !.cl[ch].parentId = newParent]
                                     b == [a EXCEPT !.cl[newParent].children = SetAdd(@, ch)]
                                     c == safeSend(b, newParent, "listener-joined", ch)
                                 IN  safeSend(c, ch, "reassigned", newParent)
                            ELSE safeSend(w1, ch, "reassigned", NoId)
                  IN  ServerReassignChildren(w2, Tail(children))

\* ws.on("close") in server.js: the entry is deleted from the Map last
ServerCloseStep(cl, id) ==
    LET c  == cl[id]
        w0 == World([cl EXCEPT ![id].ws = "CLOSED"])
        w1 == IF c.parentId # NoId /\ c.parentId \in DOMAIN cl
              THEN safeSend([w0 EXCEPT !.cl[c.parentId].children = SetDelete(@, id)],
                            c.parentId, "child-left", id)
              ELSE w0
        w2 == ServerReassignChildren(w1, w1.cl[id].children)
    IN  IF w2.hung THEN w2
        ELSE [w2 EXCEPT !.cl = [i \in DOMAIN w2.cl \ {id} |-> w2.cl[i]]]

\* every participant sends at most one register frame
ServerRegister(id, r) ==
    /\ ~hung
    /\ id \in DOMAIN clients
    /\ clients[id].ws = "OPEN"
    /\ regs[id] = 0
    /\ Commit(ServerRegisterStep(clients, id, r))
    /\ regs' = [regs EXCEPT ![id] = @ + 1]
    /\ UNCHANGED <<nextId, now, order, crashed>>

ServerClose(id) ==
    /\ ~hung
    /\ id \in DOMAIN clients
    /\ Commit(ServerCloseStep(clients, id))
    /\ UNCHANGED <<nextId, now, regs, order, crashed>>

NextServer ==
    \/ nextId <= VariantClients /\ Connect /\ UNCHANGED <<order, crashed>>
    \/ \E id \in DOMAIN clients, r \in RoleInputs : ServerRegister(id, r)
    \/ \E id \in DOMAIN clients : ServerClose(id)

SpecServer == Init /\ [][NextServer]_vars

\* ---- the part_006 variant: the same search under the name
\* findParentNodeForNew, no heartbeat and no backup parent ----

RECURSIVE findParentNodeForNewLoop(_, _)
findParentNodeForNewLoop(cl, q) ==
    IF q = <<>> THEN NoId
    ELSE LET id == Head(q)[1]
             d  == Head(q)[2]
             rest == Tail(q)
         IN  IF d > Cardinality(DOMAIN cl) THEN Diverges
             ELSE IF id \notin DOMAIN cl THEN findParentNodeForNewLoop(cl, rest)
             ELSE IF Len(cl[id].children) < Limit(cl[id]) THEN id
             ELSE findParentNodeForNewLoop(cl,
                      rest \o [k \in 1 .. Len(cl[id].children) |-> <<cl[id].children[k], d + 1>>])

findParentNodeForNew(cl) ==
    LET rootId == findRootBroadcaster(cl)
    IN  IF rootId = NoId THEN NoId ELSE findParentNodeForNewLoop(cl, <<<<rootId, 0>>>>)

\* the loop of the broadcaster branch: a rootless listener for which no parent
\* is found is left as it is and told nothing
RECURSIVE PlaceRootless(_, _)
PlaceRootless(w, ids) ==
    IF ids = <<>> \/ w.hung THEN w
    ELSE LET cid == Head(ids)
             c   == w.cl[cid]
         IN  IF c.role = "listener" /\ c.parentId = NoId
             THEN LET p == findParentNodeForNew(w.cl)
                      w1 == IF p = Diverges THEN [w EXCEPT !.hung = TRUE]
                            ELSE IF p = NoId THEN w
                            ELSE LET a == [w EXCEPT !.cl[cid].parentId = p]
                                     b == [a EXCEPT !.cl[p].children = SetAdd(@, cid)]
                                     e == safeSend(b, cid, "room-assigned", p)
                                 IN  safeSend(e, p, "listener-joined", cid)
                  IN  PlaceRootless(w1, Tail(ids))
             ELSE PlaceRootless(w, Tail(ids))

\* the "register" branch of ws.on("message") in part_006
Part006RegisterStep(cl, id, r0) ==
    LET r  == IF r0 = NoRole THEN "listener" ELSE r0
        w0 == World([cl EXCEPT ![id].role = r])
    IN  IF r = "broadcaster"
        THEN PlaceRootless(safeSend(w0, id, "registered-as-broadcaster", id), Entries(cl))
        ELSE LET parentId == findParentNodeForNew(w0.cl)
             IN  IF parentId = Diverges THEN [w0 EXCEPT !.hung = TRUE]
                 ELSE IF parentId = NoId
                 THEN safeSend([w0 EXCEPT !.cl[id].parentId = NoId], id, "room-assigned", NoId)
                 ELSE LET a == [w0 EXCEPT !.cl[id].parentId = parentId]
                          b == [a EXCEPT !.cl[parentId].children = SetAdd(@, id)]
                          c == safeSend(b, id, "room-assigned", parentId)
                      IN  safeSend(c, parentId, "listener-joined", id)

\* the loop of ws.on("close") in part_006: reassigned is written before
\* listener-joined
RECURSIVE Part006ReassignChildren(_, _)
Part006ReassignChildren(w, children) ==
    IF children = <<>> \/ w.hung THEN w
    ELSE LET ch == Head(children)
         IN  IF ch \notin DOMAIN w.cl THEN Part006ReassignChildren(w, Tail(children))
             ELSE LET w1 == [w EXCEPT !.cl[ch].parentId = NoId]
                      newParent == findParentNodeForNew(w1.cl)
                      w2 == IF newParent = Diverges THEN [w1 EXCEPT !.hung = TRUE]
                            ELSE IF newParent # NoId
                            THEN LET a == [w1 EXCEPT !.cl[ch].parentId = newParent]
                                     b == [a EXCEPT !.cl[newParent].children = SetAdd(@, ch)]
                                     c == safeSend(b, ch, "reassigned", newParent)
                                 IN  safeSend(c, newParent, "listener-joined", ch)
                            ELSE safeSend(w1, ch, "reassigned", NoId)
                  IN  Part006ReassignChildren(w2, Tail(children))

\* ws.on("close") in part_006
Part006CloseStep(cl, id) ==
    LET c  == cl[id]
        w0 == World([cl EXCEPT ![id].ws = "CLOSED"])
        w1 == IF c.parentId # NoId /\ c.parentId \in DOMAIN cl
              THEN safeSend([w0 EXCEPT !.cl[c.parentId].children = SetDelete(@, id)],
                            c.parentId, "child-left", id)
              ELSE w0
        w2 == Part006ReassignChildren(w1, w1.cl[id].children)
    IN  IF w2.hung THEN w2
        ELSE [w2 EXCEPT !.cl = [i \in DOMAIN w2.cl \ {id} |-> w2.cl[i]]]

Part006Register(id, r) ==
    /\ ~hung
    /\ id \in DOMAIN clients
    /\ clients[id].ws = "OPEN"
    /\ regs[id] = 0
    /\ Commit(Part006RegisterStep(clients, id, r))
    /\ regs' = [regs EXCEPT ![id] = @ + 1]
    /\ UNCHANGED <<nextId, now, order, crashed>>

Part006Close(id) ==
    /\ ~hung
    /\ id \in DOMAIN clients
    /\ Commit(Part006CloseStep(clients, id))
    /\ UNCHANGED <<nextId, now, regs, order, crashed>>

NextPart006 ==
    \/ nextId <= VariantClients /\ Connect /\ UNCHANGED <<order, crashed>>
    \/ \E id \in DOMAIN clients, r \in RoleInputs : Part006Register(id, r)
    \/ \E id \in DOMAIN clients : Part006Close(id)

SpecPart006 == Init /\ [][NextPart006]_vars

\* ---- vocabulary of the claims ---------------------------------------------

Live == DOMAIN clients
role(x) == clients[x].role
parent(x) == clients[x].parentId
children(x) == {clients[x].children[k] : k \in 1 .. Len(clients[x].children)}
capacity(x) == IF role(x) = "broadcaster" THEN ROOT_CHILD_LIMIT ELSE MAX_CHILDREN_PER_NODE
Broadcasters == {x \in Live : role(x) = "broadcaster"}

\* parent^k(x), with none (and a parent that left the registry) absorbing
RECURSIVE ParentPow(_, _)
ParentPow(x, k) ==
    IF k = 0 THEN x
    ELSE LET y == ParentPow(x, k - 1)
         IN  IF y \in Live THEN parent(y) ELSE NoId

\* ---- C1 --------------------------------------------------------------------
\* C1: in every reachable state, for all participants x and y,
\* x is in children(y) if and only if parent(x) = y.
C1_BidirectionalConsistency ==
    \A x \in Live, y \in Live : (x \in children(y)) <=> (parent(x) = y)

\* ---- C2 --------------------------------------------------------------------
\* C2: in every reachable state the parent relation has no cycle: there is no
\* participant x and k >= 1 with parent^k(x) = x; in particular parent(x) # x.
C2_Acyclic ==
    \A x \in Live : \A k \in 1 .. MaxClients : ParentPow(x, k) # x

\* ---- C3 --------------------------------------------------------------------
\* C3: in every reachable state at most one participant has role broadcaster.
C3_AtMostOneBroadcaster == Cardinality(Broadcasters) <= 1

\* ---- C4 --------------------------------------------------------------------
\* C4: after every completed step every participant n has
\* |children(n)| <= capacity(n), with capacity 2 for every role.
C4_Capacity ==
    \A n \in Live : Len(clients[n].children) <= capacity(n)

\* C4 witness: a node is filled to its capacity and a later listener has been
\* placed one level below it.
C4_Witness ==
    \E n \in Live, m \in Live :
        /\ Len(clients[n].children) = capacity(n)
        /\ m \in children(n)
        /\ children(m) # {}

\* ---- C5 --------------------------------------------------------------------
\* C5: once a participant's role is broadcaster or listener it never changes.
C5_RoleImmutable ==
    [][\A x \in Live :
          (role(x) # NoRole /\ x \in DOMAIN clients') => clients'[x].role = role(x)]_vars

\* ---- C6 --------------------------------------------------------------------
\* C6: in every reachable state every broadcaster has parent = none and is a
\* member of no participant's children set.
C6_BroadcasterIsRoot ==
    \A b \in Broadcasters :
        parent(b) = NoId /\ \A y \in Live : b \notin children(y)

\* ---- C7 --------------------------------------------------------------------
\* Breadth-first order, stated without the queue: a node is named by the
\* sequence of child positions that leads to it from the root; shorter
\* sequences come first and, at equal length, the one that takes the earlier
\* added child at the first difference.

RECURSIVE NodeAt(_, _, _)
NodeAt(cl, root, pos) ==
    IF pos = <<>> THEN root
    ELSE LET up == NodeAt(cl, root, SubSeq(pos, 1, Len(pos) - 1))
             k  == pos[Len(pos)]
         IN  IF up \in DOMAIN cl /\ k <= Len(cl[up].children)
             THEN cl[up].children[k]
             ELSE NoId

\* no children list is longer than the larger capacity (C4)
Fanout == IF ROOT_CHILD_LIMIT > MAX_CHILDREN_PER_NODE
          THEN ROOT_CHILD_LIMIT ELSE MAX_CHILDREN_PER_NODE

Positions == UNION {[1 .. d -> 1 .. Fanout] : d \in 0 .. MaxClients}

Before(p, q) ==
    \/ Len(p) < Len(q)
    \/ /\ Len(p) = Len(q)
       /\ \E k \in 1 .. Len(p) : p[k] < q[k] /\ \A j \in 1 .. k - 1 : p[j] = q[j]

HasRoom(cl, n) ==
    /\ n \in DOMAIN cl
    /\ Len(cl[n].children) < (IF cl[n].role = "broadcaster"
                               THEN ROOT_CHILD_LIMIT ELSE MAX_CHILDREN_PER_NODE)

\* the first node with room in breadth-first order from root (NoId: none)
FirstWithRoom(cl, root) ==
    LET F == {p \in Positions : HasRoom(cl, NodeAt(cl, root, p))}
    IN  IF F = {} THEN NoId
        ELSE NodeAt(cl, root, CHOOSE p \in F : \A q \in F : p = q \/ Before(p, q))

\* the broadcaster the search starts from: the earliest connected one
EarliestBroadcaster(cl) ==
    LET bs == {i \in DOMAIN cl : cl[i].role = "broadcaster"}
    IN  IF bs = {} THEN NoId ELSE CHOOSE i \in bs : \A j \in bs : i <= j

\* the step is the processing of a register{listener} frame sent by x
RegistersAsListener(x) ==
    /\ x \in Live
    /\ regs'[x] = regs[x] + 1
    /\ clients'[x].role = "listener"
    /\ ~hung'

\* the literal scenario: B alone, then B -> {L1}, then B -> {L1, L2}
ScenarioTree(b, kids) ==
    /\ Broadcasters = {b}
    /\ clients[b].children = kids
    /\ \A k \in 1 .. Len(kids) : kids[k] \in Live /\ clients[kids[k]].children = <<>>

\* C7: when a listener registers and a broadcaster exists, its parent is the
\* first node in breadth-first order from the broadcaster (children in the
\* order they were added) whose child count is below its capacity; with B
\* first and L1, L2, L3 in that order: parent(L1) = B, parent(L2) = B,
\* parent(L3) = L1.
C7_BreadthFirstPlacement ==
    [][\A x \in Live : RegistersAsListener(x) =>
          LET cl0 == [clients EXCEPT ![x].role = "listener"]
              R   == EarliestBroadcaster(cl0)
              p   == FirstWithRoom(cl0, R)
          IN  /\ (R # NoId /\ p # NoId) =>
                    /\ clients'[x].parentId = p
                    /\ HasRoom(cl0, p)
                    /\ \A q \in Positions : HasRoom(cl0, NodeAt(cl0, R, q)) =>
                          \E q0 \in Positions : NodeAt(cl0, R, q0) = p /\ Len(q0) <= Len(q)
              /\ \A b, l1, l2 \in Live \ {x} :
                    /\ ScenarioTree(b, <<>>) => clients'[x].parentId = b
                    /\ ScenarioTree(b, <<l1>>) => clients'[x].parentId = b
                    /\ (l1 # l2 /\ ScenarioTree(b, <<l1, l2>>)) => clients'[x].parentId = l1
      ]_vars

\* C7 witness: the scenario has run to its end, L3 is under L1.
C7_Witness ==
    /\ Live = {1, 2, 3, 4}
    /\ Broadcasters = {1}
    /\ clients[1].children = <<2, 3>>
    /\ clients[2].children = <<4>>
    /\ parent(2) = 1 /\ parent(3) = 1 /\ parent(4) = 2
    /\ sent = <<Msg(4, "room-assigned", 2), Msg(2, "listener-joined", 4)>>

\* ---- C8 --------------------------------------------------------------------
\* frames of one type written to one participant during the step just taken
FramesTo(to, type) == {k \in 1 .. Len(sent') : sent'[k].to = to /\ sent'[k].type = type}

\* the step is the processing of a register{broadcaster} frame sent by b
RegistersAsBroadcaster(b) ==
    /\ b \in Live
    /\ regs'[b] = regs[b] + 1
    /\ clients'[b].role = "broadcaster"
    /\ ~hung'

TreeFields(c) == <<c.role, c.parentId, c.children>>

\* what one successful placement of x under p leaves behind; `expected(n)` is
\* the number of frames participant n is to receive
PlacementEffect(x, p, expected(_)) ==
    /\ p \in DOMAIN clients'
    /\ clients'[x].parentId = p
    /\ \E k \in 1 .. Len(clients'[p].children) : clients'[p].children[k] = x
    /\ Cardinality(FramesTo(x, "room-assigned")) = expected(x)
    /\ \A k \in FramesTo(x, "room-assigned") : sent'[k].ref = p
    /\ Cardinality({k \in FramesTo(p, "listener-joined") : sent'[k].ref = x}) = expected(p)

\* an orphan that the broadcaster branch of register has just placed
PlacedOrphan(b, x) ==
    /\ x \in Live \ {b}
    /\ role(x) = "listener"
    /\ parent(x) = NoId
    /\ clients'[x].parentId # NoId

PlacementStep(expected(_)) ==
    /\ \A x \in Live : (RegistersAsListener(x) /\ clients'[x].parentId # NoId) =>
          LET p == clients'[x].parentId
          IN  /\ PlacementEffect(x, p, expected)
              /\ clients'[p].children = IF x \in children(p) THEN clients[p].children
                                        ELSE Append(clients[p].children, x)
              /\ \A k \in FramesTo(p, "listener-joined") : sent'[k].ref = x
              /\ DOMAIN clients' = Live
              /\ \A y \in Live \ {x, p} : TreeFields(clients'[y]) = TreeFields(clients[y])
    /\ \A b \in Live : RegistersAsBroadcaster(b) =>
          LET placed == {x \in Live : PlacedOrphan(b, x)}
              touched == placed \cup {clients'[x].parentId : x \in placed} \cup {b}
          IN  /\ \A x \in placed : PlacementEffect(x, clients'[x].parentId, expected)
              /\ \A q \in Live :
                    /\ SubSeq(clients'[q].children, 1, Len(clients[q].children))
                          = clients[q].children
                    /\ \A k \in Len(clients[q].children) + 1 .. Len(clients'[q].children) :
                          LET x == clients'[q].children[k]
                          IN  x \in placed /\ clients'[x].parentId = q
              /\ DOMAIN clients' = Live
              /\ \A y \in Live \ touched : TreeFields(clients'[y]) = TreeFields(clients[y])

One(n) == 1
OneIfOpen(n) == IF clients[n].ws = "OPEN" THEN 1 ELSE 0

\* C8 as stated: a successful placement of listener x under p sets
\* parent(x) = p, adds x to children(p), sends x exactly one room-assigned
\* carrying p and p exactly one listener-joined carrying x, and changes no
\* other participant's role, parent or children.
C8_PlacementEffect == [][PlacementStep(One)]_vars

\* C8 amended: the same, with each of the two frames written exactly once when
\* its recipient's transport is open and not at all when the heartbeat sweep
\* has already terminated that transport.
C8_PlacementEffectIfOpen == [][PlacementStep(OneIfOpen)]_vars

\* C8 witness: x has just been placed under another node p and both were told.
C8_Witness ==
    \E x \in Live, p \in Live :
        /\ x # p
        /\ parent(x) = p
        /\ x \in children(p)
        /\ sent = <<Msg(x, "room-assigned", p), Msg(p, "listener-joined", x)>>

\* ---- C9 --------------------------------------------------------------------
\* C9: when a listener registers while no participant has role broadcaster, it
\* is left with parent = none, it is sent room-assigned with parent = null, no
\* listener-joined is sent to anyone, and no other participant's parent or
\* children change.
C9_NoBroadcaster ==
    [][\A x \in Live : (RegistersAsListener(x) /\ Broadcasters \subseteq {x}) =>
          /\ clients'[x].parentId = NoId
          /\ sent' = <<Msg(x, "room-assigned", NoId)>>
          /\ DOMAIN clients' = Live
          /\ \A y \in Live \ {x} : TreeFields(clients'[y]) = TreeFields(clients[y])
      ]_vars

\* C9 witness: a listener has just registered into a registry without a
\* broadcaster and was told that it has no parent.
C9_Witness ==
    \E x \in Live :
        /\ Broadcasters = {}
        /\ role(x) = "listener"
        /\ regs[x] >= 1
        /\ parent(x) = NoId
        /\ sent = <<Msg(x, "room-assigned", NoId)>>

\* ---- C10 -------------------------------------------------------------------
Registered == {i \in Live : role(i) # NoRole}
Leaf(n) == n \in Live /\ clients[n].children = <<>>
ChildOf(n, q) == n \in Live /\ parent(n) = q

\* the 7-node tree: broadcaster b with children c1, c2, each with two
\* children of its own (g1, g2 under c1 and g3, g4 under c2)
FullTree(b, c1, c2, g1, g2, g3, g4) ==
    /\ Cardinality({b, c1, c2, g1, g2, g3, g4}) = 7
    /\ Broadcasters = {b}
    /\ parent(b) = NoId
    /\ clients[b].children = <<c1, c2>> /\ ChildOf(c1, b) /\ ChildOf(c2, b)
    /\ clients[c1].children = <<g1, g2>> /\ ChildOf(g1, c1) /\ ChildOf(g2, c1)
    /\ clients[c2].children = <<g3, g4>> /\ ChildOf(g3, c2) /\ ChildOf(g4, c2)
    /\ Leaf(g2) /\ Leaf(g3) /\ Leaf(g4)
    /\ g1 \in Live

\* the seven nodes of the tree, read off the broadcaster's children lists
\* (<<>> when the registry does not hold that tree)
Seven ==
    IF Cardinality(Broadcasters) # 1 THEN <<>>
    ELSE LET b  == CHOOSE i \in Broadcasters : TRUE
             cs == clients[b].children
         IN  IF Len(cs) # 2 \/ cs[1] \notin Live \/ cs[2] \notin Live THEN <<>>
             ELSE LET l == clients[cs[1]].children
                      r == clients[cs[2]].children
                  IN  IF Len(l) # 2 \/ Len(r) # 2 THEN <<>>
                      ELSE IF FullTree(b, cs[1], cs[2], l[1], l[2], r[1], r[2])
                      THEN <<b, cs[1], cs[2], l[1], l[2], r[1], r[2]>>
                      ELSE <<>>

Members(t) == {t[k] : k \in 1 .. Len(t)}

\* L8 = x is connected and has not registered; the seven others form the tree
BeforeL8(x) ==
    /\ Seven # <<>>
    /\ Leaf(Seven[4])
    /\ Registered = Members(Seven)
    /\ x \in Live /\ role(x) = NoRole

\* L8 = x has registered into the tree of seven and nothing has happened since
AfterL8(x) ==
    /\ Seven # <<>>
    /\ x \in Live \ Members(Seven)
    /\ Registered = Members(Seven) \cup {x}
    /\ role(x) = "listener" /\ Leaf(x)
    /\ Cardinality(Departed) = 0
    /\ \/ parent(x) = NoId /\ Leaf(Seven[4])
       \/ parent(x) = Seven[4] /\ clients[Seven[4]].children = <<x>>

\* the step is the close of participant d
Closes(d) == d \in Live /\ DOMAIN clients' = Live \ {d} /\ ~hung'

\* after any one of the seven disconnects, L8 has a parent
PlacedAfterDeparture ==
    \A x \in Live : AfterL8(x) =>
        \A d \in Members(Seven) :
            Closes(d) => /\ clients'[x].parentId # NoId
                         /\ clients'[x].parentId \in DOMAIN clients'

\* C10 as stated: L8 registering into the full 7-node tree receives
\* room-assigned with parent = null and remains an orphan; after any one of
\* the seven disconnects L8 has a parent.
C10_CapacityExhaustion ==
    [][/\ \A x \in Live : (BeforeL8(x) /\ RegistersAsListener(x)) =>
            /\ clients'[x].parentId = NoId
            /\ sent' = <<Msg(x, "room-assigned", NoId)>>
       /\ PlacedAfterDeparture
      ]_vars

\* C10 amended: the grandchildren still have room, so L8 is placed under the
\* first of them in breadth-first order (the first child of B's first child),
\* is told so, and keeps having a parent after any one of the seven leaves.
C10_PlacedUnderGrandchild ==
    [][/\ \A x \in Live : (BeforeL8(x) /\ RegistersAsListener(x)) =>
            LET g1 == Seven[4]
            IN  /\ clients'[x].parentId = g1
                /\ clients'[g1].children = <<x>>
                /\ sent' = <<Msg(x, "room-assigned", g1), Msg(g1, "listener-joined", x)>>
       /\ PlacedAfterDeparture
      ]_vars

\* C10 witness: L8 has just registered into the tree of seven and was told
\* where it has been put.
C10_Witness ==
    \E x \in Live :
        /\ AfterL8(x)
        /\ regs[x] = 1
        /\ \E k \in 1 .. Len(sent) : sent[k] = Msg(x, "room-assigned", parent(x))

\* ---- C11 -------------------------------------------------------------------
\* some node reachable from the broadcaster through children links has fewer
\* children than its capacity
FreeReachable(cl) ==
    LET R == EarliestBroadcaster(cl)
    IN  R # NoId /\ \E p \in Positions : HasRoom(cl, NodeAt(cl, R, p))

OrphanListener(x) == x \in Live /\ role(x) = "listener" /\ parent(x) = NoId

Attached(x) ==
    /\ clients'[x].parentId \in DOMAIN clients'
    /\ \E k \in 1 .. Len(clients'[clients'[x].parentId].children) :
          clients'[clients'[x].parentId].children[k] = x

\* C11: place is called for an orphan listener x when x sends register{listener}
\* again and when another participant b registers as broadcaster; if at that
\* point a node with room is reachable from the broadcaster, x has a parent
\* after the step and is in that parent's children.
C11_NoOrphanLeftBehind ==
    [][\A x \in Live : OrphanListener(x) =>
          /\ (RegistersAsListener(x) /\ FreeReachable(clients)) => Attached(x)
          /\ \A b \in Live \ {x} :
                (/\ RegistersAsBroadcaster(b)
                 /\ FreeReachable([clients EXCEPT ![b].role = "broadcaster"]))
                => Attached(x)
      ]_vars

\* C11 witness: three listeners registered before any broadcaster; the
\* broadcaster's register has placed all three, the last one a level below.
C11_Witness ==
    \E b \in Live, x \in Live, y \in Live, z \in Live :
        /\ Cardinality({b, x, y, z}) = 4
        /\ Broadcasters = {b}
        /\ clients[b].children = <<x, y>> /\ clients[x].children = <<z>>
        /\ parent(x) = b /\ parent(y) = b /\ parent(z) = x
        /\ sent = <<Msg(b, "registered-as-broadcaster", b),
                    Msg(x, "room-assigned", b), Msg(b, "listener-joined", x),
                    Msg(y, "room-assigned", b), Msg(b, "listener-joined", y),
                    Msg(z, "room-assigned", x), Msg(x, "listener-joined", z)>>

\* ---- C12 -------------------------------------------------------------------
\* L1 = l registered as listener while there was no broadcaster and is the only
\* registered participant; both transports are open
ListenerWaits(l) ==
    /\ OrphanListener(l)
    /\ regs[l] >= 1
    /\ Registered = {l}
    /\ clients[l].ws = "OPEN"

HasFrame(to, type, ref) == \E k \in 1 .. Len(sent') : sent'[k] = Msg(to, type, ref)

\* C12: if L1 registered as listener while no broadcaster existed and then B
\* registers as broadcaster, after B's step parent(L1) = B, B has been sent
\* listener-joined with id = L1, and L1 has been sent no room-assigned.
C12_ListenerBeforeBroadcaster ==
    [][\A l \in Live, b \in Live :
          (b # l /\ ListenerWaits(l) /\ RegistersAsBroadcaster(b)) =>
              /\ clients'[l].parentId = b
              /\ HasFrame(b, "listener-joined", l)
              /\ FramesTo(l, "room-assigned") = {}
      ]_vars

\* ---- C13 -------------------------------------------------------------------
Least(a, b) == IF a < b THEN a ELSE b

\* every participant registered so far is a listener without a parent
OnlyOrphans ==
    /\ Len(order) >= 1
    /\ Broadcasters = {}
    /\ \A k \in 1 .. Len(order) : OrphanListener(order[k])

\* C13: when a broadcaster registers, the orphaned listeners are placed one
\* after another in the order in which they registered: the first two become
\* the broadcaster's children, the third and the fourth become children of
\* the one that registered first.
C13_RegistrationOrder ==
    [][\A b \in Live : (OnlyOrphans /\ RegistersAsBroadcaster(b)) =>
          LET n == Len(order)
          IN  /\ clients'[b].children = SubSeq(order, 1, Least(n, 2))
              /\ clients'[order[1]].children = SubSeq(order, 3, Least(n, 4))
      ]_vars

\* ---- C14 -------------------------------------------------------------------
\* position pos leads from root to a node without touching an excluded node
PathClear(cl, root, pos, ex) ==
    \A k \in 0 .. Len(pos) : NodeAt(cl, root, SubSeq(pos, 1, k)) \in DOMAIN cl \ ex

\* the first node with room in breadth-first order from root when the nodes of
\* ex are skipped together with everything below them (NoId: none)
FirstWithRoomExcluding(cl, root, ex) ==
    LET F == {p \in Positions : PathClear(cl, root, p, ex) /\ HasRoom(cl, NodeAt(cl, root, p))}
    IN  IF root = NoId \/ F = {} THEN NoId
        ELSE NodeAt(cl, root, CHOOSE p \in F : \A q \in F : p = q \/ Before(p, q))

\* the registry once d has been taken out of its parent's children
Unlinked(d) ==
    IF parent(d) \in Live
    THEN [clients EXCEPT ![parent(d)].children = SelectSeq(@, LAMBDA y : y # d)]
    ELSE clients

\* the registry once c has been put under p (p = NoId: nowhere)
Linked(cl, c, p) ==
    IF p = NoId THEN cl
    ELSE [cl EXCEPT ![p].children = IF \E k \in 1 .. Len(@) : @[k] = c THEN @ ELSE Append(@, c)]

CountFrames(to, type, ref) ==
    Cardinality({k \in 1 .. Len(sent') : sent'[k] = Msg(to, type, ref)})

\* what the re-placement of child c of the closing node d leaves behind
Replaced(d, c, expected(_)) ==
    LET p == clients'[c].parentId
    IN  /\ CountFrames(c, "reassigned", p) = expected(c)
        /\ p # NoId =>
              /\ p \in Live \ {d, c}
              /\ \E k \in 1 .. Len(clients'[p].children) : clients'[p].children[k] = c
              /\ CountFrames(p, "listener-joined", c) = expected(p)

\* the scenario: B -> {L1, L2}, L1 -> {L3}
InteriorTree(b, l1, l2, l3) ==
    /\ Cardinality({b, l1, l2, l3}) = 4
    /\ Broadcasters = {b} /\ parent(b) = NoId
    /\ clients[b].children = <<l1, l2>> /\ parent(l1) = b /\ parent(l2) = b
    /\ clients[l1].children = <<l3>> /\ parent(l3) = l1
    /\ Leaf(l2) /\ Leaf(l3)

DepartureStep(expected(_)) ==
    \A d \in Live : Closes(d) =>
        LET kids == SelectSeq(clients[d].children, LAMBDA c : c \in Live \ {d})
            R    == EarliestBroadcaster(clients)
            cl1  == Unlinked(d)
            p1   == FirstWithRoomExcluding(cl1, R, {d, kids[1]})
            cl2  == Linked(cl1, kids[1], p1)
            p2   == FirstWithRoomExcluding(cl2, R, {d, kids[2]})
        IN  /\ \A k \in 1 .. Len(kids) : Replaced(d, kids[k], expected)
            /\ Len(kids) >= 1 => clients'[kids[1]].parentId = p1
            /\ Len(kids) >= 2 => clients'[kids[2]].parentId = p2
            /\ \A b, l2, l3 \in Live : InteriorTree(b, d, l2, l3) =>
                  /\ clients'[l3].parentId = b
                  /\ clients'[b].children = <<l2, l3>>
                  /\ CountFrames(l3, "reassigned", b) = expected(l3)
                  /\ CountFrames(b, "child-left", d) = expected(b)
                  /\ CountFrames(b, "listener-joined", l3) = expected(b)

\* C14 as stated: when d closes, each child c of d is re-placed by the
\* breadth-first search from the broadcaster that skips d and c, its new
\* parent is sent listener-joined for c and c is sent reassigned naming it;
\* closing L1 in B -> {L1, L2}, L1 -> {L3} puts L3 under B, with reassigned
\* to L3 and child-left for L1 and listener-joined for L3 to B.
C14_InteriorDeparture == [][DepartureStep(One)]_vars

\* C14 amended: the same, with each frame written once when its recipient's
\* transport is open and not at all when the heartbeat sweep has already
\* terminated that transport.
C14_InteriorDepartureIfOpen == [][DepartureStep(OneIfOpen)]_vars

\* C14 witness: L1 has just closed in the scenario; L3 is under B and both
\* were told.
C14_Witness ==
    \E b \in Live, l2 \in Live, l3 \in Live, d \in Departed :
        /\ Broadcasters = {b}
        /\ clients[b].children = <<l2, l3>>
        /\ parent(l2) = b /\ parent(l3) = b
        /\ sent = <<Msg(b, "child-left", d), Msg(b, "listener-joined", l3),
                    Msg(l3, "reassigned", b)>>

\* ---- C15 -------------------------------------------------------------------
\* C15: after the close step of d, d is absent from the registry, d is in no
\* remaining participant's children and no remaining participant has
\* parent = d; an id that has left the registry never comes back.
C15_NoDanglingReference ==
    [][/\ \A d \in Live : Closes(d) =>
            /\ d \notin DOMAIN clients'
            /\ \A y \in DOMAIN clients' :
                  /\ clients'[y].parentId # d
                  /\ \A k \in 1 .. Len(clients'[y].children) : clients'[y].children[k] # d
       /\ \A d \in Departed : d \notin DOMAIN clients'
      ]_vars

\* ---- C16 -------------------------------------------------------------------
\* the step is one of the three events said to re-attempt placement: another
\* participant registers as broadcaster, another participant that is not a
\* broadcaster departs and leaves room behind, or the rebalance timer fires
ReattemptEvent(x) ==
    \/ \E b \in Live \ {x} : RegistersAsBroadcaster(b)
    \/ \E d \in Live \ ({x} \cup Broadcasters) : Closes(d) /\ FreeReachable(clients')
    \/ Rebalance

\* C16: if an orphan listener exists and a broadcaster with reachable free
\* capacity exists when a broadcaster registration, a node departure or a
\* rebalance tick is processed, the orphan has a parent after that step.
C16_OrphanReattempts ==
    [][\A x \in Live :
          (OrphanListener(x) /\ FreeReachable(clients) /\ ReattemptEvent(x)) =>
              x \in DOMAIN clients' /\ clients'[x].parentId # NoId
      ]_vars

\* ---- C17 -------------------------------------------------------------------
Terminated(x) == clients[x].ws # "OPEN"

\* C17: a participant that has sent no heartbeat for HEARTBEAT_TIMEOUT plus
\* one sweep interval has had its transport terminated; and when the close
\* event of a terminated participant is processed, it is removed from the
\* registry and from the children of its parent.
C17_HeartbeatTimeout ==
    /\ [](\A x \in Live :
            now - clients[x].lastSeen >= HEARTBEAT_TIMEOUT + HEARTBEAT_SWEEP_INTERVAL
                => Terminated(x))
    /\ [][\A x \in Live : (Terminated(x) /\ Closes(x)) =>
            /\ x \notin DOMAIN clients'
            /\ \A b \in DOMAIN clients' :
                  \A k \in 1 .. Len(clients'[b].children) : clients'[b].children[k] # x
         ]_vars

\* C17 witness: L1, a child of B, stayed silent, was terminated by the sweep
\* and its close event has just been processed: B was told, L1 is gone.
C17_Witness ==
    \E b \in Live, d \in Departed :
        /\ Broadcasters = {b}
        /\ clients[b].ws = "OPEN"
        /\ now - clients[b].lastSeen < HEARTBEAT_TIMEOUT
        /\ d \notin children(b)
        /\ sent = <<Msg(b, "child-left", d)>>

\* ---- C18 -------------------------------------------------------------------
\* C18: processing a heartbeat from a live participant changes no
\* participant's role, parent or children, adds or removes no participant and
\* sends no message; the only state changed is the sender's last_seen.
C18_IdempotentHeartbeat ==
    [][\A x \in Live : Heartbeat(x) =>
          /\ DOMAIN clients' = Live
          /\ \A y \in Live :
                /\ TreeFields(clients'[y]) = TreeFields(clients[y])
                /\ clients'[y].ws = clients[y].ws
                /\ y # x => clients'[y].lastSeen = clients[y].lastSeen
          /\ clients'[x].lastSeen = now
          /\ sent' = <<>>
      ]_vars

\* C18 witness: p has a child x that connected after p, and p's last_seen is
\* later than x's: p has sent a heartbeat since x connected, and kept its child.
C18_Witness ==
    \E p \in Live, x \in Live :
        /\ p < x
        /\ parent(x) = p /\ x \in children(p)
        /\ clients[p].lastSeen > clients[x].lastSeen
        /\ sent = <<>>

\* ---- C19 -------------------------------------------------------------------
\* C19: the heartbeat sweep adds or removes no participant and changes no
\* participant's role, parent or children; all it does is terminate
\* transports, and a terminated participant stays in the registry, with its
\* links, until its own close step.
C19_SweepOnlyTerminates ==
    [][/\ Sweep =>
            /\ DOMAIN clients' = Live
            /\ \A y \in Live :
                  /\ TreeFields(clients'[y]) = TreeFields(clients[y])
                  /\ clients'[y].ws \in {clients[y].ws, "CLOSING"}
            /\ sent' = <<>>
       /\ \A x \in Live : (Terminated(x) /\ x \notin DOMAIN clients') => Closes(x)
      ]_vars

\* C19 witness: the sweep has terminated x, and x is still in the registry
\* under its parent.
C19_Witness ==
    \E p \in Live, x \in Live :
        /\ clients[x].ws = "CLOSING"
        /\ parent(x) = p /\ x \in children(p)
        /\ clients[p].ws = "OPEN"

\* ---- C20 -------------------------------------------------------------------
\* B = b has the one child L1 = l1 and l1 has three children
OverCapacity(b, l1) ==
    /\ Broadcasters = {b}
    /\ clients[b].children = <<l1>> /\ parent(l1) = b
    /\ Len(clients[l1].children) = 3

\* the destination rebalance is to choose for a child of n: among the
\* registered participants other than n with fewer children than their
\* capacity, the one with the fewest children, the earliest connected first
Destination(n) ==
    LET ok == {i \in Live \ {n} :
                 role(i) # NoRole /\ Len(clients[i].children) < capacity(i)}
    IN  CHOOSE i \in ok : \A j \in ok :
            \/ Len(clients[i].children) < Len(clients[j].children)
            \/ Len(clients[i].children) = Len(clients[j].children) /\ i <= j

RepairStep(expected(_)) ==
    \A b \in Live, l1 \in Live : (OverCapacity(b, l1) /\ Rebalance) =>
        LET m == clients[l1].children[3]
            D == Destination(l1)
        IN  /\ Len(clients'[l1].children) <= MAX_CHILDREN_PER_NODE
            /\ Len(clients'[b].children) <= ROOT_CHILD_LIMIT
            /\ clients'[l1].children = SubSeq(clients[l1].children, 1, 2)
            /\ clients'[m].parentId = D
            /\ \E k \in 1 .. Len(clients'[D].children) : clients'[D].children[k] = m
            /\ CountFrames(m, "reassigned", D) = expected(m)
            /\ CountFrames(D, "listener-joined", m) = expected(D)

Senders == IF hung \/ crashed THEN {} ELSE {s \in Live : clients[s].ws = "OPEN"}

Handled(s, f) == MessageStep(clients, s, f)

Open(cl) == {x \in DOMAIN cl : cl[x].ws = "OPEN"}

SignalingFrames == {f \in InFrames : f.json = "object" /\ f.type \in RelayTypes /\ f.target # NoId}

HandshakeRelay(expected(_)) ==
    \A s \in Senders : \A f \in SignalingFrames :
        /\ Handled(s, f).w.cl = clients
        /\ ~Handled(s, f).thrown
        /\ Handled(s, f).w.out =
              IF f.target \in Live /\ expected(f.target) = 1
              THEN <<RelayMsg(f.target, f.type, s, f.payload)>>
              ELSE <<>>

\* C21 as stated: an offer, answer or candidate carrying target = t is
\* delivered to exactly one participant, t, as {type, from, payload} with
\* from = the id of the actual sender whatever from field it supplied; if t is
\* not in the registry nothing is sent; the registry is unchanged.
C21_HandshakeRelay == HandshakeRelay(One)

\* C21 amended: the same, the frame being written only if t's transport is
\* open; to a t whose transport has been terminated nothing is sent.
C21_HandshakeRelayIfOpen == HandshakeRelay(OneIfOpen)

\* C21 witness: an answer from s has just been relayed to another participant t.
C21_Witness ==
    \E s \in Live, t \in Live :
        /\ s # t /\ s # 1
        /\ sent = <<RelayMsg(t, "answer", s, "p")>>

\* ---- C22 -------------------------------------------------------------------
FanoutFrames == {f \in InFrames : f.json = "object" /\ f.type \in {"cmd", "metadata"}}

\* C22: a cmd or metadata frame is forwarded if and only if its sender has
\* role broadcaster; then it is sent once to every participant with an open
\* transport, registered or not, the sender included, and to nobody else;
\* from any other sender it sends nothing; the registry is unchanged.
C22_BroadcasterFanout ==
    \A s \in Senders : \A f \in FanoutFrames :
        LET out == Handled(s, f).w.out IN
        /\ Handled(s, f).w.cl = clients
        /\ ~Handled(s, f).thrown
        /\ role(s) # "broadcaster" => out = <<>>
        /\ role(s) = "broadcaster" =>
              /\ Len(out) = Cardinality(Open(clients))
              /\ \A x \in Open(clients) :
                    \E k \in 1 .. Len(out) :
                        out[k] = RelayMsg(x, f.type, NoId, f.payload)

\* C22 witness: a cmd of the broadcaster has gone to the broadcaster itself
\* and to a participant that has not registered, and not to a terminated one.
C22_Witness ==
    \E b \in Live, u \in Live, t \in Live :
        /\ role(b) = "broadcaster" /\ role(u) = NoRole /\ clients[t].ws = "CLOSING"
        /\ \E k \in 1 .. Len(sent) : sent[k] = RelayMsg(b, "cmd", NoId, "p")
        /\ \E k \in 1 .. Len(sent) : sent[k] = RelayMsg(u, "cmd", NoId, "p")
        /\ \A k \in 1 .. Len(sent) : sent[k].to # t

\* ---- C23 -------------------------------------------------------------------
RoomFrames == {f \in InFrames : f.json = "object" /\ f.type = "room-message"}

\* C23: a room-message from s is delivered, with from = s, to exactly the
\* participants x with parent(x) = s and to nobody else, s itself included.
\* Stated here for the recipients whose transport is open, which is what the
\* claim says of them.
C23_SubtreeMessage ==
    \A s \in Senders : \A f \in RoomFrames :
        LET out == Handled(s, f).w.out IN
        /\ Handled(s, f).w.cl = clients
        /\ \A k \in 1 .. Len(out) :
              /\ out[k] = RelayMsg(out[k].to, "room-message", s, f.payload)
              /\ out[k].to \in Live \ {s}
              /\ parent(out[k].to) = s
        /\ \A x \in Open(clients) \ {s} : parent(x) = s =>
              Cardinality({k \in 1 .. Len(out) : out[k].to = x}) = 1

\* ---- C24 -------------------------------------------------------------------
DroppedFrames ==
    {f \in InFrames : f.json # "object" \/ f.type \in {NoType, "ping"}}

\* C24: a frame that is not valid JSON, that is valid JSON and not an object,
\* that has no type, or whose type is outside the vocabulary leaves the
\* registry unchanged, sends nothing, raises no error out of the handler and
\* leaves the sender's connection open.
C24_MalformedDropped ==
    \A s \in Senders : \A f \in DroppedFrames :
        /\ Handled(s, f).w.cl = clients
        /\ Handled(s, f).w.cl[s].ws = "OPEN"
        /\ Handled(s, f).w.out = <<>>
        /\ ~Handled(s, f).thrown

\* ---- C25 -------------------------------------------------------------------
Induced == {"reassigned", "listener-joined"}

\* the step terminates the transport of a participant that stays in the registry
Terminates(x) ==
    /\ x \in Live /\ x \in DOMAIN clients'
    /\ clients[x].ws = "OPEN" /\ clients'[x].ws = "CLOSING"

\* C25: the reassigned and listener-joined frames induced by the departure of
\* d are written only in the processing of d's close event: the step that
\* terminates a transport writes none and moves nobody, a reassigned frame is
\* written by no step but a close and a rebalance tick that moves a child (no
\* register, heartbeat or sweep writes one), and in d's close step they come
\* after d has been taken out of its parent's children, which is when the
\* child-left frame to that parent is written: that frame, when the parent's
\* transport is open, precedes all of them.
C25_DepartureOrdering ==
    [][/\ (\E x \in Live : Terminates(x)) =>
             /\ sent' = <<>>
             /\ \A y \in Live : TreeFields(clients'[y]) = TreeFields(clients[y])
       /\ (sent' # sent /\ \E k \in 1 .. Len(sent') : sent'[k].type = "reassigned") =>
             \/ \E d \in Live : Closes(d)
             \/ /\ DOMAIN clients' = Live /\ regs' = regs /\ now' = now
                /\ \E c \in Live : clients'[c].parentId # clients[c].parentId
       /\ \A d \in Live : Closes(d) =>
             LET p == parent(d) IN
             \A k \in 1 .. Len(sent') :
                 (/\ sent'[k].type \in Induced
                  /\ p \in Live \ {d}
                  /\ clients[p].ws = "OPEN") =>
                     \E j \in 1 .. k - 1 : sent'[j] = Msg(p, "child-left", d)
      ]_vars

\* C25 witness: the close event of d, a child of p, has just been processed;
\* its child c took the place d left under p, which was full before, and p was
\* told of d's leaving first.
C25_Witness ==
    \E p \in Live, c \in Live, d \in Departed :
        /\ sent = <<Msg(p, "child-left", d), Msg(p, "listener-joined", c),
                    Msg(c, "reassigned", p)>>
        /\ Len(clients[p].children) = MAX_CHILDREN_PER_NODE

\* ---- C26 -------------------------------------------------------------------
\* C26: the response to GET /admin/rooms has exactly one entry per participant
\* in the registry, registered or not, and every entry carries the role,
\* parent and children that participant has in the one registry state the
\* request is served in; serving it changes nothing.
C26_AdminSnapshot ==
    [][AdminRooms =>
          LET out == sent'[1].ref IN
          /\ clients' = clients
          /\ Len(out) = Cardinality(Live)
          /\ \A x \in Live :
                \E k \in 1 .. Len(out) :
                    /\ out[k].id = x
                    /\ out[k].role = role(x)
                    /\ out[k].parentId = parent(x)
                    /\ out[k].children = clients[x].children
                    /\ out[k].lastSeen = clients[x].lastSeen
      ]_vars

\* C26 witness: a snapshot has just been returned that lists a broadcaster
\* with a child, that child, and a participant that has not registered.
C26_Witness ==
    /\ Len(sent) = 1
    /\ sent[1].type = "admin-rooms"
    /\ \E i, j, k \in 1 .. Len(sent[1].ref) :
          /\ sent[1].ref[i].role = "broadcaster"
          /\ sent[1].ref[i].children = <<sent[1].ref[j].id>>
          /\ sent[1].ref[j].parentId = sent[1].ref[i].id
          /\ sent[1].ref[k].role = NoRole

\* ---- C27 -------------------------------------------------------------------
\* n has more children than its capacity
Overfull(n) == Len(clients[n].children) > capacity(n)

\* x gains a child in the step
Gains(x) ==
    \E k \in 1 .. Len(clients'[x].children) :
        \A j \in 1 .. Len(clients[x].children) :
            clients'[x].children[k] # clients[x].children[j]

\* no registered participant other than n has fewer children than its capacity
NoDestination(n) ==
    \A x \in Live \ {n} :
        role(x) = NoRole \/ Len(clients[x].children) >= capacity(x)

\* C27: in one rebalance tick a participant gains a child only if it is not
\* the over-capacity node and had fewer children than its capacity, and it
\* ends the tick with no more children than its capacity; a child that is
\* not moved keeps its parent and its place in children(N); when no
\* destination exists nothing is moved and nothing is sent.
C27_NoOverfill ==
    [][Rebalance =>
          /\ \A x \in Live : Gains(x) =>
                /\ ~Overfull(x)
                /\ role(x) # NoRole
                /\ Len(clients[x].children) < capacity(x)
                /\ Len(clients'[x].children) <= capacity(x)
          /\ \A n \in Live : Overfull(n) =>
                /\ \A c \in Live :
                      (c \in children(n) /\ parent(c) = n) =>
                          \/ clients'[c].parentId = n /\
                                \E k \in 1 .. Len(clients'[n].children) :
                                    clients'[n].children[k] = c
                          \/ clients'[c].parentId # n /\
                                \A k \in 1 .. Len(clients'[n].children) :
                                    clients'[n].children[k] # c
                /\ NoDestination(n) => (clients' = clients /\ sent' = <<>>)
                /\ Len(clients'[n].children) > capacity(n) =>
                      \A x \in Live \ {n} :
                          role(x) = NoRole \/ Len(clients'[x].children) >= capacity(x)
      ]_vars

\* C27 witness: three children of the crowded broadcaster have just been
\* moved; the first destination took two of them and is full, the third went
\* to the next one.
C27_Witness ==
    \E D \in Live, E \in Live :
        /\ D # E
        /\ Len(clients[1].children) = ROOT_CHILD_LIMIT
        /\ Len(clients[D].children) = MAX_CHILDREN_PER_NODE
        /\ Len(clients[E].children) = 1
        /\ Len(sent) = 6
        /\ sent[1].to = D /\ sent[3].to = D /\ sent[5].to = E

\* ---- C28 -------------------------------------------------------------------
\* the registry is bidirectionally consistent and the parent relation acyclic
TreeInvariants ==
    /\ \A x \in Live, y \in Live : (x \in children(y)) <=> (parent(x) = y)
    /\ \A x \in Live : \A k \in 1 .. OverflowClients : ParentPow(x, k) # x

C29_BroadcasterDeparture ==
    [][/\ \A d \in Live : (Broadcasters = {d} /\ Closes(d)) =>
             /\ \A k \in 1 .. Len(sent') : sent'[k].type # "listener-joined"
             /\ \A c \in Live \ {d} : (c \in children(d) /\ parent(c) = d) =>
                   /\ clients'[c].parentId = NoId
                   /\ CountFrames(c, "reassigned", NoId) = OneIfOpen(c)
                   /\ clients'[c].children = clients[c].children
       /\ \A x \in Live : (Broadcasters = {} /\ RegistersAsListener(x)) =>
             /\ clients'[x].parentId = NoId
             /\ sent' = <<Msg(x, "room-assigned", NoId)>>
      ]_vars

\* ---- C30 -------------------------------------------------------------------
\* C30: the sweep terminates a transport only if now - lastSeen is strictly
\* greater than HEARTBEAT_TIMEOUT at the time of the sweep; lastSeen changes
\* only when a heartbeat of the participant is processed, and then to the
\* time of processing: a register does not change it and neither does any
\* other frame the message handler takes; a participant that has registered
\* and stays silent is terminated like any other.
C30_NoPrematureTermination ==
    /\ [][\A x \in Live :
            /\ Terminates(x) => now' - clients[x].lastSeen > HEARTBEAT_TIMEOUT
            /\ (x \in DOMAIN clients' /\ clients'[x].lastSeen # clients[x].lastSeen) =>
                  /\ clients[x].ws = "OPEN"
                  /\ clients'[x].lastSeen = now
                  /\ now' = now /\ regs' = regs
         ]_vars
    /\ [](\A s \in Senders : \A f \in InFrames : \A x \in Live :
            Handled(s, f).w.cl[x].lastSeen = clients[x].lastSeen)
    /\ [](\A x \in Live :
            (regs[x] >= 1 /\ now - clients[x].lastSeen >= HEARTBEAT_TIMEOUT + HEARTBEAT_SWEEP_INTERVAL)
                => Terminated(x))

\* C30 witness: the sweep has just run; x, registered and silent for more
\* than the timeout, is terminated, and y, silent for exactly the timeout, is
\* not.
C30_Witness ==
    \E x \in Live, y \in Live :
        /\ SweepDue(now)
        /\ regs[x] >= 1 /\ clients[x].ws = "CLOSING"
        /\ now - clients[x].lastSeen = HEARTBEAT_TIMEOUT + ClockStepMs
        /\ clients[y].ws = "OPEN"
        /\ now - clients[y].lastSeen = HEARTBEAT_TIMEOUT

\* ---- C31 -------------------------------------------------------------------
\* C31: when every participant registers at most once, every placement
\* attempted while a broadcaster is in the registry finds a parent: the
\* listener that registers, every orphan listener when a broadcaster
\* registers, and every child of a closing node that is not a broadcaster;
\* and the search always ends.
C31_PlacementSucceeds ==
    /\ [](~hung)
    /\ [][\A x \in Live :
            /\ (RegistersAsListener(x) /\ Broadcasters # {}) =>
                  clients'[x].parentId \in DOMAIN clients'
            /\ \A b \in Live \ {x} :
                  (RegistersAsBroadcaster(b) /\ OrphanListener(x)) =>
                      clients'[x].parentId \in DOMAIN clients'
            /\ \A d \in Live \ {x} :
                  (/\ Closes(d) /\ role(d) # "broadcaster" /\ Broadcasters # {}
                   /\ x \in children(d)) =>
                      clients'[x].parentId \in DOMAIN clients' \ {d}
         ]_vars

\* C31 witness: a listener with a child has just closed under a full
\* broadcaster; the child has been re-placed in the tree.
C31_Witness ==
    \E b \in Live, c \in Live, d \in Departed :
        /\ Broadcasters = {b}
        /\ \A i \in Live : regs[i] <= 1
        /\ Len(clients[b].children) = ROOT_CHILD_LIMIT
        /\ parent(c) = b
        /\ sent = <<Msg(b, "child-left", d), Msg(b, "listener-joined", c),
                    Msg(c, "reassigned", b)>>

\* ---- C32 -------------------------------------------------------------------
\* the participants reachable from the members of S in at most n children links
RECURSIVE Reach(_, _)
Reach(S, n) ==
    IF n = 0 THEN S
    ELSE Reach(S \cup UNION {children(y) : y \in S \cap Live}, n - 1)

\* C32: when no participant registers more than once and at most one ever
\* registers as broadcaster, in every state in which that broadcaster is in
\* the registry every listener has a parent and is reachable from the
\* broadcaster through children links.
C32_NoOrphanUnderSoleBroadcaster ==
    \A b \in Broadcasters :
        \A x \in Live : role(x) = "listener" =>
            /\ parent(x) # NoId
            /\ x \in Reach({b}, SoleClients)

\* C32 witness: two listeners registered before the broadcaster did, a third
\* after; one child of the broadcaster has left and the tree has closed up.
C32_Witness ==
    \E b \in Broadcasters, x \in Live, y \in Live, d \in Departed :
        /\ x < b /\ y > b /\ x # y
        /\ regs[d] = 1
        /\ role(x) = "listener" /\ role(y) = "listener"
        /\ \E k \in 1 .. Len(sent) : sent[k] = Msg(b, "child-left", d)
        /\ \E k \in 1 .. Len(sent) : sent[k].type = "reassigned"

\* ---- C33 -------------------------------------------------------------------
\* C33: when each participant registers at most once, with any role, in every
\* state x is in children(y) if and only if parent(x) = y, and the parent
\* relation has no cycle.
C33_RegisterOnceTree ==
    /\ \A x \in Live, y \in Live : (x \in children(y)) <=> (parent(x) = y)
    /\ \A x \in Live : \A k \in 1 .. OnceClients : ParentPow(x, k) # x

\* C33 witness: two broadcasters are registered, a listener sits two levels
\* below a broadcaster and a participant that had registered has left.
C33_Witness ==
    \E b \in Broadcasters, c \in Broadcasters, x \in Live, d \in Departed :
        /\ b # c
        /\ regs[d] = 1
        /\ parent(x) # NoId /\ parent(x) \notin Broadcasters
        /\ ParentPow(x, 2) \in Broadcasters

\* ---- C34 -------------------------------------------------------------------
\* C34: in every state reachable through connect, message, close and sweep
\* steps no participant has more children than its capacity, and a rebalance
\* tick in that state moves no child, sends nothing and leaves the registry
\* as it is.
C34_RebalanceNoOp ==
    ~hung =>
        /\ \A n \in Live : Len(clients[n].children) <= Limit(clients[n])
        /\ rebalance(clients) = World(clients)

\* C34 witness: the broadcaster is full, one of its children has a child of
\* its own, a participant has registered twice, and the last step wrote
\* nothing.
C34_Witness ==
    \E b \in Broadcasters, x \in Live, y \in Live :
        /\ parent(x) = b /\ parent(y) = x
        /\ Len(clients[b].children) = ROOT_CHILD_LIMIT
        /\ clients[x].children = <<y>>
        /\ \E i \in Live : regs[i] = 2
        /\ sent = <<>>

\* ---- C35 -------------------------------------------------------------------
\* C35: no placement selects as new parent a participant whose transport the
\* sweep has terminated and whose close event has not been processed yet:
\* whenever a step gives x a new parent p, the transport of p is open.
C35_NoPlacementUnderTerminated ==
    [][\A x \in Live : \A p \in Live :
          (/\ x \in DOMAIN clients'
           /\ clients'[x].parentId = p
           /\ clients[x].parentId # p) => clients[p].ws = "OPEN"
      ]_vars

\* ---- C36 -------------------------------------------------------------------
\* the positions in the frames of the step of the notifications that tell x
\* its parent
Notices(x) ==
    {k \in 1 .. Len(sent') :
        sent'[k].to = x /\ sent'[k].type \in {"room-assigned", "reassigned"}}

Last(S) == CHOOSE k \in S : \A j \in S : j <= k

ListenerView(expected(_)) ==
    \A x \in Live :
        x \in DOMAIN clients' =>
            /\ (clients'[x].parentId # clients[x].parentId /\ expected(x) = 1) =>
                  Notices(x) # {}
            /\ Notices(x) # {} =>
                  sent'[Last(Notices(x))].ref = clients'[x].parentId

\* C36 as stated: every change of parent(x) is accompanied in the same step
\* by a room-assigned or reassigned message sent to x, and the most recent
\* such message names parent(x), null for an orphan.
C36_ListenerView == [][ListenerView(One)]_vars

\* C36 amended: the same for every x whose transport is open when its parent
\* changes; a participant whose transport has been terminated is sent nothing.
C36_ListenerViewIfOpen == [][ListenerView(OneIfOpen)]_vars

\* C36 witness: the only broadcaster has just closed; its child x, whose
\* transport is open, has been told that it has no parent.
C36_Witness ==
    \E x \in Live, d \in Departed :
        /\ Broadcasters = {}
        /\ role(x) = "listener" /\ parent(x) = NoId /\ clients[x].ws = "OPEN"
        /\ sent = <<Msg(x, "reassigned", NoId)>>

\* ---- C37 -------------------------------------------------------------------
\* children(p) after the step
ChildrenAfter(p) ==
    {clients'[p].children[k] : k \in 1 .. Len(clients'[p].children)}

\* the step writes p a frame of the given type naming c
Told(p, type, c) == \E k \in 1 .. Len(sent') : sent'[k] = Msg(p, type, c)

RECURSIVE AncestorIn(_, _, _)
AncestorIn(cl, x, k) ==
    IF k = 0 THEN x
    ELSE LET y == AncestorIn(cl, x, k - 1)
         IN  IF y \in DOMAIN cl THEN cl[y].parentId ELSE NoId

\* C38: in the server.js and part_006 variants, after the close step of any
\* node d, the broadcaster included, no child of d has itself or one of its
\* own descendants as parent, and no surviving participant has d as parent.
C38_VariantCloseSound ==
    [][\A d \in Live :
          Closes(d) =>
              /\ \A x \in children(d) \cap DOMAIN clients' :
                    \A k \in 1 .. VariantClients : AncestorIn(clients', x, k) # x
              /\ \A y \in DOMAIN clients' : clients'[y].parentId # d]_vars

====
